---------------------------- MODULE Spec2Model ----------------------------
(***************************************************************************)
(* Model of the health-metrics API core of light-os.                       *)
(*                                                                         *)
(* Part 1: the admission controller (app/rate_limiter.py): the token       *)
(* bucket Lua script, check_rate_limit, and the rate-limit middleware in   *)
(* the middleware stack that app/main.py builds.                           *)
(*                                                                         *)
(* Numbers.  Time is counted in whole seconds.  Token counts are floats in *)
(* the code; here they are exact fixed-point numbers counted in 1/Unit of  *)
(* a token, where Unit is the common denominator of the configured rates,  *)
(* so that elapsed * rate is always a whole number of units.  A rate is a  *)
(* fraction <<numerator, denominator>> of tokens per second.               *)
(***************************************************************************)
EXTENDS Integers, Sequences, FiniteSets, TLC

VARIABLES
    clock,      \* wall-clock time (time.time()), in seconds
    store,      \* the shared key-value store: key -> bucket hash, existing keys only
    args,       \* the (identifier, rate, capacity) the checks of a run are made with
    last,       \* history: what the latest script execution read, saw and returned
    run,        \* history: counts over the checks made since the bucket's creation
    inflight,   \* checks that have read their clock and not yet run the script: stamp -> count
    win,        \* history: a window <<from, to>> of timestamps, fixed per behaviour
    inWin,      \* history: number of allowed checks whose timestamp lies in win
    reordered,  \* history: some script ran with a timestamp older than last_refill
    env,        \* the process environment and the store server's condition
    redis_client,   \* rate_limiter._redis_client: << >> (None) or <<client>>
    script_sha,     \* rate_limiter._script_sha: << >> (None) or <<sha>>
    started,    \* the application's lifespan startup has run
    req,        \* the request a client sends: its headers and its transport peer
    resp,       \* the response to the latest request, and what was done to produce it
    cache_client,   \* cache._redis_client of each server process: << >> (None) or <<client>>
    calls,      \* the version-oracle call each process is making, and its position in it
    hist,       \* history: versions returned and bumps made so far
    fetch,      \* the query being served through the cache, and its position
    prev,       \* history: the query served before it
    data,       \* the state of the data the queries are about: the number of writes
    codec,      \* the cursor codec's input, the cursor, and the outcome of decoding it
    docs,       \* the health_data collection: document number -> document
    page,       \* the latest get_health_data call: its arguments and its outcome
    session,    \* history: the pages a client got by following next_cursor
    summary,    \* the latest get_health_data_summary call and its outcome
    http        \* the latest request to a health-data route and its response

bucketHist == <<args, last, run, inflight, win, inWin, reordered>>
mwVars == <<env, redis_client, script_sha, started, req, resp>>
oracleVars == <<cache_client, calls, hist>>
cacheVars == <<fetch, prev, data>>
engineVars == <<docs, page, session, summary, http>>
others == <<oracleVars, cacheVars, codec, engineVars>>
vars == <<clock, store, args, last, run, inflight, win, inWin, reordered,
          env, redis_client, script_sha, started, req, resp,
          cache_client, calls, hist, fetch, prev, data, codec,
          docs, page, session, summary, http>>

---------------------------------------------------------------------------
(* Bounds of the model *)

MaxTime == 3        \* the clock runs from 0 to MaxTime seconds
MaxConcTime == 2    \* the same, where checks run concurrently
MaxInflight == 2    \* at most this many checks are between clock read and script
MaxMwTime == 1      \* the clock's range where whole requests are handled
MaxHeaderLen == 2   \* a forwarded-for header value has at most this many characters
MaxIdle == 2        \* with idle periods, the clock runs to MaxIdle times the time-to-live
MaxProcs == 2       \* server processes calling the version oracle at the same time
MaxBumps == 2       \* bump_user_version is called at most this many times
MaxWall == 1        \* a datetime's wall-clock reading is from 0 to MaxWall minutes
MaxDocs == 3        \* the collection holds at most this many documents, numbered from 1
MaxFailures == 1    \* the store fails to answer at most this many lookups of one session
MaxExtra == 1       \* a large collection holds up to this many documents more than a limit

---------------------------------------------------------------------------
(* Program constants: app/rate_limiter.py *)

AUTH_RATE == <<2, 1>>       \* 2.0 tokens per second
AUTH_CAPACITY == 30
\* the anonymous rate as it would be at 0.05 tokens per second (a faulty variant)
ANON_RATE_Slow == <<1, 20>>
ANON_RATE == <<1, 2>>       \* 0.5 tokens per second
ANON_CAPACITY == 10
BUCKET_TTL == 120           \* redis.call('EXPIRE', key, 120)

Unit == AUTH_RATE[2] * ANON_RATE[2]     \* token counts are in 1/Unit tokens

Min(a, b) == IF a < b THEN a ELSE b

---------------------------------------------------------------------------
(* TOKEN_BUCKET_SCRIPT, one definition per group of its lines *)

\* key = f"ratelimit:{identifier}"
BucketKey(identifier) == "ratelimit:" \o identifier

\* redis.call('HMGET', key, 'tokens', 'last_refill'): nil fields for a missing key
HMGET(st, key) ==
    IF key \in DOMAIN st
    THEN [nil |-> FALSE, tokens |-> st[key].tokens, last_refill |-> st[key].last_refill]
    ELSE [nil |-> TRUE, tokens |-> 0, last_refill |-> 0]

\* A key that has no time-to-live
NoExpiry == -1

\* redis.call('HMSET', key, 'tokens', tokens, 'last_refill', now): the fields are
\* written; a key that exists keeps its time-to-live, a new key has none
HMSET(st, key, tokens, now) ==
    [k \in DOMAIN st \cup {key} |->
        IF k = key
        THEN [tokens |-> tokens, last_refill |-> now,
              expire_at |-> IF key \in DOMAIN st THEN st[key].expire_at ELSE NoExpiry]
        ELSE st[k]]

\* EXPIRE as it would be if it left a running time-to-live alone (a faulty variant)
EXPIREKeepsRunning(st, key, seconds, srv) ==
    [st EXCEPT ![key].expire_at = IF @ = NoExpiry THEN srv + seconds ELSE @]

\* redis.call('EXPIRE', key, 120): the time-to-live runs anew, from the store's
\* own clock srv
EXPIRE(st, key, seconds, srv) == [st EXCEPT ![key].expire_at = srv + seconds]

\* The store at time srv: a key whose time-to-live has run out is gone
Expired(st, srv) ==
    LET live == {k \in DOMAIN st : st[k].expire_at = NoExpiry \/ st[k].expire_at > srv}
    IN  [k \in live |-> st[k]]

\* elapsed * rate, in units
TokensToAdd(elapsed, rate) == (elapsed * rate[1] * Unit) \div rate[2]

\* Refill as it would be without the math.min of line 30 (a faulty variant)
RefillNoCap(bucket, capacity, rate, now) ==
    LET tokens == IF bucket.nil THEN capacity * Unit ELSE bucket.tokens
        last_refill == IF bucket.nil THEN now ELSE bucket.last_refill
    IN  tokens + TokensToAdd(now - last_refill, rate)

\* lines 25-30: the token count the check sees, before any deduction
Refill(bucket, capacity, rate, now) ==
    LET tokens == IF bucket.nil THEN capacity * Unit ELSE bucket.tokens
        last_refill == IF bucket.nil THEN now ELSE bucket.last_refill
        elapsed == now - last_refill
        tokens_to_add == TokensToAdd(elapsed, rate)
    IN  Min(capacity * Unit, tokens + tokens_to_add)

\* Admit as it would be with the comparison off by one token (a faulty variant)
AdmitOffByOne(tokens, tokens_requested) == ~(tokens < (tokens_requested - 1) * Unit)

\* line 32: the check is denied if tokens < tokens_requested
Admit(tokens, tokens_requested) == ~(tokens < tokens_requested * Unit)

\* the deny branch as it would be if it kept the stored count and wrote only
\* last_refill (a faulty variant)
HMSETOnDenyKeepsTokens(st, key, tokens, now) ==
    [k \in DOMAIN st \cup {key} |->
        IF k = key
        THEN [tokens |-> IF key \in DOMAIN st THEN st[key].tokens ELSE tokens,
              last_refill |-> now,
              expire_at |-> IF key \in DOMAIN st THEN st[key].expire_at ELSE NoExpiry]
        ELSE st[k]]

\* line 33: redis.call('HMSET', key, 'tokens', tokens, 'last_refill', now) of the
\* deny branch
HMSETOnDeny(st, key, tokens, now) == HMSET(st, key, tokens, now)

\* Deduct as it would be if the deduction were lost (a faulty variant)
DeductNothing(tokens, tokens_requested) == tokens

\* line 38: tokens = tokens - tokens_requested
Deduct(tokens, tokens_requested) == tokens - tokens_requested * Unit

\* The whole script, run atomically by the store: its reply, the store after it, and
\* (for the history variables) the bucket it read and the refilled count it saw.
TokenBucketScript(st, key, capacity, rate, now, tokens_requested, srv) ==
    LET bucket == HMGET(st, key)
        tokens == Refill(bucket, capacity, rate, now)
    IN  IF ~Admit(tokens, tokens_requested)
        THEN [result |-> 0, read |-> bucket, seen |-> tokens,
              store |-> EXPIRE(HMSETOnDeny(st, key, tokens, now), key, BUCKET_TTL, srv)]
        ELSE [result |-> 1, read |-> bucket, seen |-> tokens,
              store |-> EXPIRE(HMSET(st, key, Deduct(tokens, tokens_requested), now),
                               key, BUCKET_TTL, srv)]

---------------------------------------------------------------------------
(* The request path: app/main.py, app/dependencies.py, app/rate_limiter.py *)

\* Python's None and a present value, as sequences of length 0 and 1
None == << >>
Some(x) == <<x>>

\* The characters header values are made of here, and the header values
Chars == {"a", ",", " "}
HeaderValues == UNION {[1..n -> Chars] : n \in 0..MaxHeaderLen}

\* The characters of a string, joined
RECURSIVE Join(_)
Join(cs) == IF cs = << >> THEN "" ELSE Head(cs) \o Join(Tail(cs))

\* What the Authorization header can hold: a scheme, and for a bearer token what
\* jwt.decode makes of it (valid signature and expiry or not, and the payload's sub)
AuthValues ==
    { [scheme |-> "Bearer", valid |-> TRUE, sub |-> Some("u1")],
      [scheme |-> "Bearer", valid |-> TRUE, sub |-> None],
      [scheme |-> "Bearer", valid |-> FALSE, sub |-> Some("u1")],
      [scheme |-> "Basic", valid |-> FALSE, sub |-> None] }

Requests ==
    [authorization : {None} \cup {Some(a) : a \in AuthValues},
     forwarded : {None} \cup {Some(h) : h \in HeaderValues},
     client : {None, Some("p")}]

\* request.state: attribute name -> value, set attributes only
EmptyState == [a \in {} |-> None]
Getattr(state, name) == IF name \in DOMAIN state THEN Some(state[name]) ELSE None
Setattr(state, name, value) == [a \in DOMAIN state \cup {name} |-> IF a = name THEN value ELSE state[a]]

\* dependencies.py auth_middleware: request.state after it has run
AuthMiddleware(request, state) ==
    LET auth_header == request.authorization
    IN  IF auth_header # None /\ auth_header[1].scheme = "Bearer"
        THEN IF auth_header[1].valid                 \* jwt.decode returns the payload
             THEN LET user_id == auth_header[1].sub     \* payload.get("sub")
                  IN  IF user_id # None THEN Setattr(state, "user_id", user_id[1]) ELSE state
             ELSE state                              \* except Exception: pass
        ELSE state

\* str.split(",")[0]: the characters before the first comma
RECURSIVE FirstField(_)
FirstField(cs) ==
    IF cs = << >> \/ Head(cs) = "," THEN << >> ELSE <<Head(cs)>> \o FirstField(Tail(cs))

\* str.strip(): without the leading and trailing whitespace
RECURSIVE LStrip(_)
LStrip(cs) == IF cs # << >> /\ Head(cs) = " " THEN LStrip(Tail(cs)) ELSE cs
RECURSIVE RStrip(_)
RStrip(cs) ==
    IF cs # << >> /\ cs[Len(cs)] = " " THEN RStrip(SubSeq(cs, 1, Len(cs) - 1)) ELSE cs
Strip(cs) == RStrip(LStrip(cs))

\* get_client_ip as it would be without strip() (a faulty variant)
GetClientIpUnstripped(request) ==
    LET forwarded == request.forwarded
    IN  IF forwarded # None /\ forwarded[1] # << >>
        THEN Join(FirstField(forwarded[1]))
        ELSE IF request.client # None THEN request.client[1] ELSE "unknown"

\* get_client_ip
GetClientIp(request) ==
    LET forwarded == request.forwarded      \* request.headers.get("X-Forwarded-For")
    IN  IF forwarded # None /\ forwarded[1] # << >>
        THEN Join(Strip(FirstField(forwarded[1])))
        ELSE IF request.client # None THEN request.client[1] ELSE "unknown"

\* get_redis_client: the client it returns and the _redis_client it leaves
GetRedisClient ==
    IF redis_client # None THEN [client |-> redis_client, global |-> redis_client]
    ELSE IF ~env.host THEN [client |-> None, global |-> redis_client]
    ELSE IF env.up THEN [client |-> Some("client"), global |-> Some("client")]
    ELSE [client |-> None, global |-> redis_client]

\* What can go wrong with one call to a reachable store: nothing, the call is lost
\* on its way (timeout), or its reply is (timeout after the script has run)
Faults == {"none", "lost_request", "lost_reply"}

\* OnCheckError as it would be if the check failed closed (a faulty variant)
OnCheckErrorDeny == FALSE

\* check_rate_limit lines 117-119: except Exception: return True
OnCheckError == TRUE

\* check_rate_limit: what it returns, the store and _redis_client after it, and
\* (for the history) whether a store failure made it return and what the script
\* did if it ran
CheckRateLimit(identifier, rate, capacity, sha, fault) ==
    LET g == GetRedisClient
        key == BucketKey(identifier)
        now == clock
        r == TokenBucketScript(store, key, capacity, rate, now, 1, clock)
    IN  IF g.client = None \/ sha = None
        THEN [allowed |-> TRUE, store |-> store, rc |-> g.global, failure |-> "no_client",
              script |-> r]
        ELSE IF ~env.up \/ sha[1] \notin env.scripts \/ fault = "lost_request"
        THEN [allowed |-> OnCheckError, store |-> store, rc |-> g.global,
              failure |-> "raised", script |-> r]
        ELSE IF fault = "lost_reply"
        THEN [allowed |-> OnCheckError, store |-> r.store, rc |-> g.global,
              failure |-> "raised", script |-> r]
        ELSE [allowed |-> r.result # 0, store |-> r.store, rc |-> g.global,
              failure |-> "none", script |-> r]

NoHeaders == [h \in {} |-> ""]

\* f"{rate:.1f}": both configured rates are whole tenths
Format1f(rate) ==
    LET tenths == (rate[1] * 10) \div rate[2]
    IN  ToString(tenths \div 10) \o "." \o ToString(tenths % 10)

\* The downstream handler's response
HandlerResponse(state) ==
    [status |-> 200, headers |-> NoHeaders, downstream |-> TRUE,
     user_id |-> Getattr(state, "user_id")]

\* Rejection as it would be without the Retry-After header (a faulty variant)
RejectionNoHint ==
    [status |-> 429, headers |-> NoHeaders, downstream |-> FALSE, user_id |-> None]

\* rate_limit_middleware lines 141-145
Rejection ==
    [status |-> 429, headers |-> [h \in {"Retry-After"} |-> "60"], downstream |-> FALSE,
     user_id |-> None]

\* Annotated as it would be with the rate formatted as an integer (a faulty variant)
AnnotatedIntRate(response, rate, capacity) ==
    [response EXCEPT !.headers =
        [h \in {"X-RateLimit-Limit", "X-RateLimit-Rate", "X-RateLimit-Burst"} |->
            CASE h = "X-RateLimit-Limit" -> ToString(capacity)
              [] h = "X-RateLimit-Rate" -> ToString(rate[1] \div rate[2]) \o "/s"
              [] OTHER -> ToString(capacity)]]

\* rate_limit_middleware lines 147-151
Annotated(response, rate, capacity) ==
    [response EXCEPT !.headers =
        [h \in {"X-RateLimit-Limit", "X-RateLimit-Rate", "X-RateLimit-Burst"} |->
            CASE h = "X-RateLimit-Limit" -> ToString(capacity)
              [] h = "X-RateLimit-Rate" -> Format1f(rate) \o "/s"
              [] OTHER -> ToString(capacity)]]

NoTier == [identifier |-> "", rate |-> <<0, 1>>, capacity |-> 0]

\* rate_limit_middleware, given the response call_next would return: the response,
\* the store and _redis_client after it and, for the history, the tier it selected
\* and what check_rate_limit did
RateLimitMiddleware(request, state, next, fault) ==
    IF env.disabled
    THEN [resp |-> next, store |-> store, rc |-> redis_client, selected |-> FALSE,
          tier |-> NoTier, checked |-> FALSE, allowed |-> FALSE, failure |-> "disabled"]
    ELSE
    LET user_id == Getattr(state, "user_id")
        tier == IF user_id # None
                THEN [identifier |-> "user:" \o user_id[1], rate |-> AUTH_RATE,
                      capacity |-> AUTH_CAPACITY]
                ELSE [identifier |-> "ip:" \o GetClientIp(request), rate |-> ANON_RATE,
                      capacity |-> ANON_CAPACITY]
        sha == script_sha
        c == CheckRateLimit(tier.identifier, tier.rate, tier.capacity, sha, fault)
    IN  IF sha = None
        THEN [resp |-> next, store |-> store, rc |-> redis_client, selected |-> TRUE,
              tier |-> tier, checked |-> FALSE, allowed |-> FALSE, failure |-> "no_script"]
        ELSE IF ~c.allowed
        THEN [resp |-> Rejection, store |-> c.store, rc |-> c.rc, selected |-> TRUE,
              tier |-> tier, checked |-> TRUE, allowed |-> FALSE, failure |-> c.failure]
        ELSE [resp |-> Annotated(next, tier.rate, tier.capacity), store |-> c.store,
              rc |-> c.rc, selected |-> TRUE, tier |-> tier, checked |-> TRUE,
              allowed |-> TRUE, failure |-> c.failure]

\* app.add_middleware: Starlette puts the middleware added last in front, so that
\* it is the outermost and runs first
AddMiddleware(stack, dispatch) == <<dispatch>> \o stack

\* main.py lines 28-29, outermost first
MiddlewareStack ==
    AddMiddleware(AddMiddleware(<< >>, "auth_middleware"), "rate_limit_middleware")

\* The application handling one request: the middleware from the i-th of the stack
\* inwards, then the handler
RECURSIVE Dispatch(_, _, _, _)
Dispatch(i, request, state, fault) ==
    IF i > Len(MiddlewareStack)
    THEN [resp |-> HandlerResponse(state), store |-> store, rc |-> redis_client,
          selected |-> FALSE, tier |-> NoTier, checked |-> FALSE, allowed |-> FALSE,
          failure |-> "disabled"]
    ELSE IF MiddlewareStack[i] = "auth_middleware"
    THEN Dispatch(i + 1, request, AuthMiddleware(request, state), fault)
    ELSE RateLimitMiddleware(request, state,
                             Dispatch(i + 1, request, state, fault).resp, fault)

NoResponse ==
    [status |-> 0, headers |-> NoHeaders, downstream |-> FALSE, user_id |-> None,
     selected |-> FALSE, tier |-> NoTier, checked |-> FALSE, allowed |-> FALSE,
     failure |-> "disabled"]

\* The request-path variables where only the bucket is looked at: a process with a
\* connected client and a loaded script
IdleMW ==
    /\ env = [disabled |-> FALSE, host |-> TRUE, up |-> TRUE, scripts |-> {"sha"}]
    /\ redis_client = Some("client")
    /\ script_sha = Some("sha")
    /\ started = TRUE
    /\ req = [authorization |-> None, forwarded |-> None, client |-> None]
    /\ resp = NoResponse

\* The server processes that call the version oracle
Procs == 1..MaxProcs

NoCall == [op |-> "none", pc |-> "idle", user_id |-> "", ret |-> 0, floor |-> 0,
           stored |-> FALSE, init |-> FALSE]
NoHist == [returned |-> [u \in {} |-> 0], floor |-> [u \in {} |-> 0], bumps |-> 0]

\* The variables of app/cache.py where it is not looked at: no call is made
IdleOracle ==
    /\ cache_client = [p \in Procs |-> None]
    /\ calls = [p \in Procs |-> NoCall]
    /\ hist = NoHist

NoFetch == [pc |-> "idle", user_id |-> "", params |-> "", version |-> 0, result |-> None,
            computed |-> FALSE, read |-> FALSE, wrote |-> FALSE, at |-> 0, set_at |-> 0,
            bumped |-> FALSE, where |-> ""]

\* The variables of the query cache where it is not looked at: no query is made
IdleCache ==
    /\ fetch = NoFetch
    /\ prev = NoFetch
    /\ data = 0

---------------------------------------------------------------------------
(* Part 3: the cursor codec (HealthService.encode_cursor, decode_cursor).  *)
(*                                                                         *)
(* A datetime is its wall-clock reading, in minutes, and its tzinfo: None  *)
(* or the offset from UTC in minutes.  Text is kept by its structure: an   *)
(* ISO-8601 string is its wall-clock reading and its offset suffix, a JSON *)
(* text is the value it denotes, a cursor is the bytes it encodes.         *)

\* The offsets from UTC, in minutes, and their isoformat suffixes
Offsets == {0, 120, -300}
Suffix(offset) == CASE offset = 0 -> "+00:00" [] offset = 120 -> "+02:00"
                    [] offset = -300 -> "-05:00"
OffsetOf(suffix) == CHOOSE offset \in Offsets : Suffix(offset) = suffix

Datetimes == [wall : 0..MaxWall, tzinfo : {None} \cup {Some(o) : o \in Offsets}]
DocIds == {"doc-1", "doc/2"}

\* Strings: an ISO-8601 string, or any other text
IsoString(wall, suffix) == [iso |-> TRUE, wall |-> wall, suffix |-> suffix, text |-> ""]
PlainString(text) == [iso |-> FALSE, wall |-> 0, suffix |-> "", text |-> text]

\* timestamp.isoformat()
IsoFormat(timestamp) ==
    IsoString(timestamp.wall,
              IF timestamp.tzinfo = None THEN "" ELSE Suffix(timestamp.tzinfo[1]))

\* JSON values
NoMembers == [k \in {} |-> 0]
JString(string) == [type |-> "string", string |-> string, members |-> NoMembers]
JOther(type) == [type |-> type, string |-> PlainString(""), members |-> NoMembers]
JObject(members) == [type |-> "object", string |-> PlainString(""), members |-> members]

\* Cursors: a string that is the base64 of some bytes, or is not; bytes that are the
\* UTF-8 of some text, or are not; text that is the JSON of some value, or is not
Cursor(b64, utf8, json, value) == [b64 |-> b64, utf8 |-> utf8, json |-> json, value |-> value]

\* The outcome of a call: what it returns, or the exception it ends with
Return(timestamp, doc_id) == [exc |-> "", timestamp |-> timestamp, doc_id |-> doc_id]
Raises(exc) == [exc |-> exc, timestamp |-> [wall |-> 0, tzinfo |-> None],
                doc_id |-> JOther("null")]

\* The exception classes that are ValueError or a subclass of it
ValueErrors == {"ValueError", "binascii.Error", "UnicodeDecodeError", "JSONDecodeError"}

\* encode_cursor: base64.b64encode(json.dumps(cursor_data).encode()).decode()
EncodeCursor(timestamp, doc_id) ==
    LET cursor_data == [k \in {"timestamp", "id"} |->
                           IF k = "timestamp" THEN JString(IsoFormat(timestamp))
                           ELSE JString(PlainString(doc_id))]
    IN  Cursor(TRUE, TRUE, TRUE, JObject(cursor_data))

\* cursor_data[key], for whatever json.loads returned
GetItem(cursor_data, key) ==
    IF cursor_data.type # "object" THEN Raises("TypeError")
    ELSE IF key \notin DOMAIN cursor_data.members THEN Raises("KeyError")
    ELSE Return([wall |-> 0, tzinfo |-> None], cursor_data.members[key])

\* datetime.fromisoformat(value)
FromIsoFormat(value) ==
    IF value.type # "string" THEN Raises("TypeError")
    ELSE IF ~value.string.iso THEN Raises("ValueError")
    ELSE Return([wall |-> value.string.wall,
                 tzinfo |-> IF value.string.suffix = "" THEN None
                            ELSE Some(OffsetOf(value.string.suffix))],
                JOther("null"))

\* lines 141-146, the body of decode_cursor's try
DecodeBody(cursor) ==
    IF ~cursor.b64 THEN Raises("binascii.Error")
    ELSE IF ~cursor.utf8 THEN Raises("UnicodeDecodeError")
    ELSE IF ~cursor.json THEN Raises("JSONDecodeError")
    ELSE LET cursor_data == cursor.value
             field == GetItem(cursor_data, "timestamp")
             parsed == FromIsoFormat(field.doc_id)
             timestamp == IF parsed.timestamp.tzinfo = None
                          THEN [parsed.timestamp EXCEPT !.tzinfo = Some(0)]
                          ELSE parsed.timestamp
             doc_id == GetItem(cursor_data, "id")
         IN  IF field.exc # "" THEN field
             ELSE IF parsed.exc # "" THEN parsed
             ELSE IF doc_id.exc # "" THEN doc_id
             ELSE Return(timestamp, doc_id.doc_id)

\* lines 147-148: except (ValueError, KeyError, json.JSONDecodeError): raise ValueError
Except(outcome) ==
    IF outcome.exc \in ValueErrors \cup {"KeyError"} THEN Raises("ValueError") ELSE outcome

\* decode_cursor
DecodeCursor(cursor) == Except(DecodeBody(cursor))

\* The values a member of a decoded object may have, and the cursors there are
MemberValues ==
    {JString(IsoFormat(t)) : t \in Datetimes}
        \cup {JString(PlainString(d)) : d \in DocIds}
        \cup {JOther("number"), JOther("null")}
JsonValues ==
    {JObject(members) : members \in UNION {[K -> MemberValues] : K \in SUBSET {"timestamp", "id"}}}
        \cup {JOther("array"), JOther("number"), JOther("null"), JOther("true"),
              JString(PlainString("timestamp"))}
Cursors ==
    {Cursor(TRUE, TRUE, TRUE, value) : value \in JsonValues}
        \cup {Cursor(TRUE, TRUE, FALSE, JOther("null")),
              Cursor(TRUE, FALSE, FALSE, JOther("null")),
              Cursor(FALSE, FALSE, FALSE, JOther("null"))}

NoCodec == [stage |-> "idle", timestamp |-> [wall |-> 0, tzinfo |-> None], doc_id |-> "",
            encoded |-> FALSE, cursor |-> Cursor(FALSE, FALSE, FALSE, JOther("null")),
            out |-> Raises("")]

\* The codec where it is not looked at
IdleCodec == codec = NoCodec

---------------------------------------------------------------------------
(* Part 4: the paginated query engine (HealthService.get_health_data and   *)
(* get_health_data_summary) over the document store, and the routes of     *)
(* app/routers/health.py in front of it.                                   *)
(*                                                                         *)
(* The collection is a map from document numbers to documents.  The id of  *)
(* document n is the fixed-width string DocId(n), so that ids order as     *)
(* their numbers do.  Stored timestamps are UTC and counted in minutes, as *)
(* the codec's datetimes are.  A mean is kept as the fraction <<sum,       *)
(* count>> it is computed from.                                            *)

Users == {"u1", "u2"}

\* The limits of get_health_data, and the one get_health_data_summary asks for
DEFAULT_LIMIT == 50
MAX_LIMIT == 100
SUMMARY_LIMIT == 10000

MinutesPerDay == 1440

\* The id of document n (str(uuid.uuid4()) in the code: a fixed-width string)
DocId(n) ==
    IF n < 10 THEN "doc-00" \o ToString(n)
    ELSE IF n < 100 THEN "doc-0" \o ToString(n) ELSE "doc-" \o ToString(n)

\* A datetime in UTC
Utc(wall) == [wall |-> wall, tzinfo |-> Some(0)]

\* entry_doc, as create_health_data stores it
EntryDoc(user_id, timestamp, steps, calories, sleepHours) ==
    [user_id |-> user_id, timestamp |-> timestamp, steps |-> steps,
     calories |-> calories, sleepHours |-> sleepHours]

\* end_date.replace(hour=23, minute=59, second=59, microsecond=999999): the last
\* minute of end_date's day stands for its last microsecond
EndOfDay(end_date) ==
    (end_date \div MinutesPerDay) * MinutesPerDay + (MinutesPerDay - 1)

\* the filters without the one on user_id (a faulty variant)
WhereAnyUser(d, user_id, start_date, end_date) ==
    {n \in DOMAIN d :
        /\ start_date = None \/ d[n].timestamp >= start_date[1]
        /\ end_date = None \/ d[n].timestamp <= EndOfDay(end_date[1])}

\* collection.where(user_id == ...).where(timestamp >= ...).where(timestamp <= ...)
Where(d, user_id, start_date, end_date) ==
    {n \in DOMAIN d :
        /\ d[n].user_id = user_id
        /\ start_date = None \/ d[n].timestamp >= start_date[1]
        /\ end_date = None \/ d[n].timestamp <= EndOfDay(end_date[1])}

\* The order of order_by("timestamp").order_by("__name__")
Before(d, m, n) ==
    \/ d[m].timestamp < d[n].timestamp
    \/ d[m].timestamp = d[n].timestamp /\ m < n

\* query.stream() of an ordered query: the documents of S in order, each at the
\* place that the number of documents before it gives it
Placed(S, place) == [i \in 1..Cardinality(S) |-> CHOOSE n \in S : place[n] = i]
OrderBy(d, S) ==
    CHOOSE docs_ \in {Placed(S, place) :
                         place \in {[n \in S |->
                                       1 + Cardinality({m \in S : Before(d, m, n)})]}} :
        TRUE

\* start_after as it would be if it began a query of its own at the snapshot,
\* without the filters (a faulty variant)
StartAfterAll(d, S, cursor_doc) == {n \in DOMAIN d : Before(d, cursor_doc, n)}

\* query.start_after(cursor_doc): the documents strictly after the snapshot's
\* (timestamp, __name__)
StartAfter(d, S, cursor_doc) == {n \in S : Before(d, cursor_doc, n)}

\* query.limit(k)
Limit(docs_, k) == SubSeq(docs_, 1, Min(k, Len(docs_)))

\* lines 172-173 without the upper bound (a faulty variant)
ValidateLimitNoMax(limit) == IF limit < 1 THEN DEFAULT_LIMIT ELSE limit

\* lines 172-173: if limit < 1 or limit > 100: limit = 50
ValidateLimit(limit) == IF limit < 1 \/ limit > MAX_LIMIT THEN DEFAULT_LIMIT ELSE limit

\* Document ids that are not one path element
InvalidPaths == {"doc/2"}

\* self.collection.document(cursor_doc_id).get(): the document's number, None when
\* there is no such document, or the exception that ends the lookup.  ok is whether
\* the store answers.
NoDoc == [exc |-> "", found |-> None]
GetDocument(d, cursor_doc_id, ok) ==
    IF cursor_doc_id.type = "null" THEN
        \* document(None) is a reference with a new random id
        IF ok THEN NoDoc ELSE [exc |-> "GoogleAPICallError", found |-> None]
    ELSE IF cursor_doc_id.type # "string" THEN [exc |-> "TypeError", found |-> None]
    ELSE IF cursor_doc_id.string.text \in InvalidPaths
    THEN [exc |-> "ValueError", found |-> None]
    ELSE IF ~ok THEN [exc |-> "GoogleAPICallError", found |-> None]
    ELSE LET same == {n \in DOMAIN d : DocId(n) = cursor_doc_id.string.text}
         IN  IF same = {} THEN NoDoc
             ELSE [exc |-> "", found |-> Some(CHOOSE n \in same : TRUE)]

\* lines 198-205: the document a decoded cursor names is looked up
Lookup(decoded, got) ==
        IF decoded.exc # ""
        THEN [lookup |-> "invalid", after |-> None, exc |-> decoded.exc]
        ELSE IF got.exc = "GoogleAPICallError"
        THEN [lookup |-> "failed", after |-> None, exc |-> got.exc]
        ELSE IF got.exc # ""
        THEN [lookup |-> "invalid", after |-> None, exc |-> got.exc]
        ELSE IF got.found = None
        THEN [lookup |-> "missing", after |-> None, exc |-> ""]
        ELSE [lookup |-> "found", after |-> got.found, exc |-> ""]

\* lines 194-205, the body of the try: decode the cursor, get the document
GetCursorDoc(d, decoded, ok) == Lookup(decoded, GetDocument(d, decoded.doc_id, ok))
ResumeBody(d, cursor, ok) == GetCursorDoc(d, DecodeCursor(cursor), ok)

\* the except clause as it would be with ValueError alone (a faulty variant)
ExceptValueError(resume) ==
    IF resume.exc \in ValueErrors THEN [resume EXCEPT !.exc = ""] ELSE resume

\* lines 206-208: except (ValueError, Exception): pass
ExceptPass(resume) == [resume EXCEPT !.exc = ""]

\* lines 193-208: where the query resumes
Resume(d, cursor, ok) ==
    IF cursor = None THEN [lookup |-> "none", after |-> None, exc |-> ""]
    ELSE ExceptPass(ResumeBody(d, cursor[1], ok))

\* HealthDataResponse(**data) of document n
Entry(d, n) ==
    [id |-> DocId(n), user_id |-> d[n].user_id, timestamp |-> Utc(d[n].timestamp),
     steps |-> d[n].steps, calories |-> d[n].calories, sleepHours |-> d[n].sleepHours]

\* has_more as it would be with >= (a faulty variant)
HasMoreAtLimit(docs_, limit) == Len(docs_) >= limit

\* line 217: has_more = len(docs) > limit
HasMore(docs_, limit) == Len(docs_) > limit

\* The outcome of a get_health_data call
Page(lookup, after, entries, next_cursor, has_more, exc) ==
    [lookup |-> lookup, after |-> after, entries |-> entries,
     next_cursor |-> next_cursor, has_more |-> has_more, exc |-> exc]

\* lines 216-250: the page made of the documents that the query returned
Entries(d, fetched, limit, resume) ==
    LET has_more == HasMore(fetched, limit)
        count == IF has_more THEN limit ELSE Len(fetched)
        next_cursor ==
            IF has_more /\ count > 0
            THEN LET last_doc == fetched[count]
                 IN  Some(EncodeCursor(Utc(d[last_doc].timestamp), DocId(last_doc)))
            ELSE None
    IN  Page(resume.lookup, resume.after, [i \in 1..count |-> Entry(d, fetched[i])],
             next_cursor, has_more, "")

\* lines 210-250: the query is run from where it resumes, and the page is made
Stream(d, matching, resume, lim, stream_ok) ==
    LET query == IF resume.after = None THEN matching
                 ELSE StartAfter(d, matching, resume.after[1])
    IN  IF resume.exc # ""
        THEN Page(resume.lookup, None, << >>, None, FALSE, resume.exc)
        ELSE IF ~stream_ok
        THEN Page(resume.lookup, resume.after, << >>, None, FALSE, "GoogleAPICallError")
        ELSE \* docs = list(query.stream()): the query is run once
             CHOOSE out \in {Entries(d, docs_, lim, resume) :
                                docs_ \in {Limit(OrderBy(d, query), lim + 1)}} : TRUE

\* get_health_data, lines 171-250.  lookup_ok and stream_ok are whether the store
\* answers the lookup of the cursor's document and the query.
GetHealthData(d, user_id, start_date, end_date, cursor, limit, lookup_ok, stream_ok) ==
    Stream(d, Where(d, user_id, start_date, end_date), Resume(d, cursor, lookup_ok),
           ValidateLimit(limit), stream_ok)

\* sum(entry.<field> for entry in entries[lo..hi]), by halves
RECURSIVE SumOver(_, _, _, _)
SumOver(entries, field, lo, hi) ==
    IF lo > hi THEN 0
    ELSE IF lo = hi THEN entries[lo][field]
    ELSE LET mid == (lo + hi) \div 2
         IN  SumOver(entries, field, lo, mid) + SumOver(entries, field, mid + 1, hi)

\* sum(entry.<field> for entry in entries)
Sum(entries, field) == SumOver(entries, field, 1, Len(entries))

\* The outcome of a get_health_data_summary call
Summary(total_steps, average_calories, average_sleep_hours, exc) ==
    [total_steps |-> total_steps, average_calories |-> average_calories,
     averageSleepHours |-> average_sleep_hours, exc |-> exc]

\* float(total / num_entries)
Mean(total, num_entries) == <<total, num_entries>>

\* the empty result as a zero-filled summary (a faulty variant)
IfEmptyZeroFilled(entries) == Summary(0, <<0, 1>>, <<0, 1>>, "")

\* lines 275-276: if not entries: raise HealthDataNotFoundError
IfEmpty(entries) == Summary(0, <<0, 1>>, <<0, 1>>, "HealthDataNotFoundError")

\* lines 275-291: the summary of the entries that get_health_data returned
Reduce(entries, num_entries, exc) ==
    IF exc # "" THEN Summary(0, <<0, 1>>, <<0, 1>>, exc)
    ELSE IF entries = << >> THEN IfEmpty(entries)
    ELSE Summary(Sum(entries, "steps"),
                 Mean(Sum(entries, "calories"), num_entries),
                 Mean(Sum(entries, "sleepHours"), num_entries), "")
Reduced(r) == Reduce(r.entries, Len(r.entries), r.exc)

\* get_health_data_summary, lines 272-291
GetHealthDataSummary(d, user_id, start_date, end_date, stream_ok) ==
    Reduced(GetHealthData(d, user_id, Some(start_date), Some(end_date), None,
                          SUMMARY_LIMIT, TRUE, stream_ok))

\* The outcome of a call of the engine that was not made, the pagination session
\* that was not begun, and the request that was not sent
NoPage == [pc |-> "idle", user_id |-> "", start_date |-> None, end_date |-> None,
           cursor |-> None, limit |-> 0, lookup_ok |-> TRUE, stream_ok |-> TRUE,
           out |-> Page("none", None, << >>, None, FALSE, "")]
NoSession == [pc |-> "idle", items |-> << >>, pages |-> 0, failures |-> 0,
              before |-> {}, inserted |-> {}, gone |-> {}]
NoSummary == [pc |-> "idle", user_id |-> "", start_date |-> 0, end_date |-> 0,
              out |-> Summary(0, <<0, 1>>, <<0, 1>>, "")]
NoHttp == [pc |-> "idle", op |-> "", credentials |-> "", user_id |-> "",
           status_code |-> 0, called |-> FALSE]

\* The engine where it is not looked at
IdleEngine ==
    /\ docs = << >>
    /\ page = NoPage
    /\ session = NoSession
    /\ summary = NoSummary
    /\ http = NoHttp

---------------------------------------------------------------------------
(* The checks of one identifier *)

\* The two tiers rate_limit_middleware calls check_rate_limit with.
Tiers ==
    { [identifier |-> "user:u1", rate |-> AUTH_RATE, capacity |-> AUTH_CAPACITY],
      [identifier |-> "ip:a", rate |-> ANON_RATE, capacity |-> ANON_CAPACITY] }

Key == BucketKey(args.identifier)
Cap == args.capacity * Unit

NoCheck == [checked |-> FALSE, result |-> 0, seen |-> 0, now |-> 0,
            read |-> [nil |-> TRUE, tokens |-> 0, last_refill |-> 0],
            wrote |-> [nil |-> TRUE, tokens |-> 0, last_refill |-> 0],
            before |-> [nil |-> TRUE, tokens |-> 0, last_refill |-> 0]]
NoRun == [started |-> FALSE, t0 |-> 0, same |-> TRUE, allowed |-> 0, denied |-> FALSE,
          emptied |-> None, denials |-> 0,
          base |-> [nil |-> TRUE, tokens |-> 0, last_refill |-> 0]]

Stamps == 0..MaxTime
InflightCount == LET S[n \in -1..MaxTime] == IF n < 0 THEN 0 ELSE inflight[n] + S[n - 1]
                 IN  S[MaxTime]

InitBucket ==
    /\ clock = 0
    /\ store = << >>
    /\ args \in Tiers
    /\ last = NoCheck
    /\ run = NoRun
    /\ inflight = [n \in Stamps |-> 0]
    /\ inWin = 0
    /\ reordered = FALSE
    /\ IdleMW
    /\ IdleOracle
    /\ IdleCache
    /\ IdleCodec
    /\ IdleEngine

\* d seconds pass
Pass(d) ==
    /\ clock' = clock + d
    /\ store' = Expired(store, clock + d)
    /\ UNCHANGED <<bucketHist, mwVars, others>>

\* time passes
Advance == clock < MaxTime /\ Pass(1)

\* check_rate_limit, the clock read and the script run with nothing in between (one
\* process, one request at a time)
Check ==
    LET now == clock
        c == CheckRateLimit(args.identifier, args.rate, args.capacity, script_sha, "none")
        r == c.script
    IN  /\ c.failure = "none"
        /\ store' = c.store
        /\ last' = [checked |-> TRUE, result |-> r.result, seen |-> r.seen,
                    now |-> now, read |-> r.read,
                    \* the bucket as this check left it, and as the check before it did
                    wrote |-> HMGET(c.store, BucketKey(args.identifier)),
                    before |-> last.wrote]
        /\ run' = [started |-> TRUE,
                   t0 |-> IF run.started THEN run.t0 ELSE now,
                   same |-> run.same /\ (run.started => now = run.t0),
                   allowed |-> run.allowed + r.result,
                   denied |-> run.denied \/ r.result = 0,
                   \* the time of the latest allowed check that left less than a token
                   emptied |-> IF r.result = 1 /\ r.seen - Unit < Unit THEN Some(now)
                               ELSE run.emptied,
                   \* the denied checks since the latest allowed one (two for more),
                   \* and the bucket that the first of them read
                   denials |-> IF r.result = 1 THEN 0 ELSE Min(2, run.denials + 1),
                   base |-> IF r.result = 1 THEN NoRun.base
                            ELSE IF run.denials = 0 THEN r.read ELSE run.base]
        /\ UNCHANGED <<clock, args, inflight, win, inWin, reordered, mwVars, others>>

\* check_rate_limit line 112: now = time.time()
ReadClock ==
    /\ InflightCount < MaxInflight
    /\ inflight' = [inflight EXCEPT ![clock] = @ + 1]
    /\ UNCHANGED <<clock, store, args, last, run, win, inWin, reordered, mwVars, others>>

\* check_rate_limit line 115: the store runs the script of a check that read its
\* clock at now
EvalSha(now) ==
    /\ inflight[now] > 0
    /\ LET r == TokenBucketScript(store, Key, args.capacity, args.rate, now, 1, clock)
       IN  /\ store' = r.store
           /\ inWin' = IF win[1] <= now /\ now <= win[2] THEN inWin + r.result ELSE inWin
           /\ reordered' = (reordered \/ (~r.read.nil /\ now < r.read.last_refill))
    /\ inflight' = [inflight EXCEPT ![now] = @ - 1]
    /\ UNCHANGED <<clock, args, last, run, win, mwVars, others>>

\* One process checking one request after the other.
Init == InitBucket /\ win = <<0, MaxTime>>
Next == Check \/ Advance
Spec == Init /\ [][Next]_vars

\* One process checking one request after the other, with idle periods as long as a
\* bucket's time-to-live.
IdlePeriods == {BUCKET_TTL - 1, BUCKET_TTL}
MaxTtlTime == MaxIdle * BUCKET_TTL
Idle == \E d \in IdlePeriods : clock + d <= MaxTtlTime /\ Pass(d)
NextTTL == Check \/ Idle
SpecTTL == Init /\ [][NextTTL]_vars

\* Several requests, in one or several server processes, checked concurrently.
NextConc ==
    \/ ReadClock
    \/ \E now \in Stamps : EvalSha(now)
    \/ (clock < MaxConcTime /\ Advance)
InitConc ==
    InitBucket /\ win \in {w \in (0..MaxConcTime) \X (0..MaxConcTime) : w[1] <= w[2]}
SpecConc == InitConc /\ [][NextConc]_vars

---------------------------------------------------------------------------
(* Requests through the middleware stack *)

InitMW ==
    /\ clock = 0
    /\ store = << >>
    /\ args = [identifier |-> "", rate |-> ANON_RATE, capacity |-> ANON_CAPACITY]
    /\ last = NoCheck
    /\ run = NoRun
    /\ inflight = [n \in Stamps |-> 0]
    /\ win = <<0, 0>>
    /\ inWin = 0
    /\ reordered = FALSE
    /\ env \in [disabled : BOOLEAN, host : BOOLEAN, up : BOOLEAN, scripts : {{}}]
    /\ env.host \/ ~env.up
    /\ redis_client = None
    /\ script_sha = None
    /\ started = FALSE
    /\ req \in Requests
    /\ resp = NoResponse
    /\ IdleOracle
    /\ IdleCache
    /\ IdleCodec
    /\ IdleEngine

\* main.py lifespan: load_rate_limit_script, once, before the first request
Startup ==
    /\ ~started
    /\ started' = TRUE
    /\ IF script_sha # None
       THEN UNCHANGED <<script_sha, redis_client, env>>
       ELSE LET g == GetRedisClient
            IN  /\ redis_client' = g.global
                /\ IF g.client # None /\ env.up
                   THEN \E loaded \in BOOLEAN :      \* script_load returns or raises
                          IF loaded
                          THEN /\ script_sha' = Some("sha")
                               /\ env' = [env EXCEPT !.scripts = @ \cup {"sha"}]
                          ELSE UNCHANGED <<script_sha, env>>
                   ELSE UNCHANGED <<script_sha, env>>
    /\ UNCHANGED <<clock, store, req, resp, bucketHist, others>>

\* The application handles a request, from the outermost middleware to the
\* response, while the call to the store goes as fault says
Handle(fault) ==
    /\ started
    /\ LET out == Dispatch(1, req, EmptyState, fault)
       IN  /\ resp' = [status |-> out.resp.status, headers |-> out.resp.headers,
                       downstream |-> out.resp.downstream, user_id |-> out.resp.user_id,
                       selected |-> out.selected, tier |-> out.tier,
                       checked |-> out.checked, allowed |-> out.allowed,
                       failure |-> out.failure]
           /\ store' = out.store
           /\ redis_client' = out.rc
    /\ UNCHANGED <<clock, env, script_sha, started, req, bucketHist, others>>

HandleRequest == \E fault \in Faults : Handle(fault)

\* The store becomes unreachable
StoreDown ==
    /\ env.host /\ env.up
    /\ env' = [env EXCEPT !.up = FALSE]
    /\ UNCHANGED <<clock, store, redis_client, script_sha, started, req, resp, bucketHist, others>>

\* The store is reachable again: the connection is back, or the server has
\* restarted, which empties its script cache and its keys
StoreBack(restarted) ==
    /\ env.host /\ ~env.up
    /\ IF restarted
       THEN env' = [env EXCEPT !.up = TRUE, !.scripts = {}] /\ store' = << >>
       ELSE env' = [env EXCEPT !.up = TRUE] /\ UNCHANGED store
    /\ UNCHANGED <<clock, redis_client, script_sha, started, req, resp, bucketHist, others>>

StoreUp == \E restarted \in BOOLEAN : StoreBack(restarted)

NextMW ==
    \/ Startup
    \/ HandleRequest
    \/ StoreDown
    \/ StoreUp
    \/ (clock < MaxMwTime /\ Advance)
SpecMW == InitMW /\ [][NextMW]_vars

\* One client without credentials sends request after request to a
\* process whose rate limit is enabled and whose store is configured; the store,
\* when it is reachable, keeps answering
InitRecover ==
    /\ InitMW
    /\ ~env.disabled /\ env.host
    /\ req = [authorization |-> None, forwarded |-> None, client |-> Some("p")]
SpecRecover == InitRecover /\ [][NextMW]_vars /\ WF_vars(Handle("none"))

---------------------------------------------------------------------------
(* Claims about the token bucket *)

Bucket == store[Key]
Exists == Key \in DOMAIN store
\* T * R for the run's rate, in units
RateTimes(T) == (T * args.rate[1] * Unit) \div args.rate[2]

\* C1: for any sequence of checks, allowed or denied, with non-decreasing
\* timestamps on a fresh bucket, the persisted token count satisfies
\* 0 <= tokens <= capacity.
C1_TokensInRange ==
    \A k \in DOMAIN store : 0 <= store[k].tokens /\ store[k].tokens <= Cap

\* A denied check has been persisted after checks at more than one timestamp.
C1_Witness ==
    /\ Exists /\ run.denied /\ ~run.same
    /\ last.checked /\ last.result = 0 /\ Bucket.tokens = last.seen

\* C2: under arbitrary concurrency, where each check reads its clock before the
\* atomic script runs, so that scripts may run in another order than their
\* timestamps, every persisted bucket still satisfies 0 <= tokens <= capacity.
C2_ConcurrentTokensInRange ==
    Exists => (0 <= Bucket.tokens /\ Bucket.tokens <= Cap)

\* C3: for any interleaving of concurrent checks of one identifier, the number of
\* checks allowed within any window of timestamps of length T = win[2] - win[1]
\* never exceeds capacity + rate * T.  (Both sides multiplied by the rate's
\* denominator.)
C3_WindowBound ==
    inWin * args.rate[2] <= args.capacity * args.rate[2] + args.rate[1] * (win[2] - win[1])

\* The bound is attained in a window of positive length although a script ran out
\* of timestamp order.
C3_Witness ==
    /\ reordered /\ win[2] > win[1]
    /\ inWin * args.rate[2] = args.capacity * args.rate[2] + args.rate[1] * (win[2] - win[1])

\* C4: a fresh bucket of capacity C allows exactly C checks made at the same
\* instant and denies the next one; afterwards checks are allowed only at the
\* refill rate: by time t no more than C + rate * (t - t0) checks have been allowed.
C4_BurstThenThrottle ==
    run.started =>
        /\ run.same =>
              /\ run.allowed <= args.capacity
              /\ run.denied <=> (run.allowed = args.capacity /\ Bucket.tokens < Unit
                                 /\ last.result = 0)
              /\ ~run.denied => Bucket.tokens = Cap - run.allowed * Unit
        /\ run.allowed * args.rate[2]
              <= args.capacity * args.rate[2] + args.rate[1] * (Bucket.last_refill - run.t0)
        /\ (run.denied /\ last.result = 1) => last.now > run.t0

\* The burst has been allowed in full and the next check at that instant denied.
C4_Witness ==
    run.started /\ run.same /\ run.denied /\ run.allowed = args.capacity

\* C5 as amended: after T seconds with no check, the token count the next check
\* sees, before any deduction, is min(capacity, tokens_prev + T * R).
C5_RefillCapped ==
    (last.checked /\ ~last.read.nil) =>
        LET T == last.now - last.read.last_refill
        IN  last.seen = Min(Cap, last.read.tokens + RateTimes(T))

\* C5 as stated: the count seen has increased by min(capacity, T * R).
C5_RefillAsStated ==
    (last.checked /\ ~last.read.nil) =>
        LET T == last.now - last.read.last_refill
        IN  last.seen - last.read.tokens = Min(Cap, RateTimes(T))

\* A check after T > 0 seconds saw a refill that the capacity cut short.
C5_Witness ==
    /\ last.checked /\ ~last.read.nil
    /\ last.now > last.read.last_refill
    /\ last.seen = Cap
    /\ last.read.tokens + RateTimes(last.now - last.read.last_refill) > Cap

---------------------------------------------------------------------------
(* Claims about the request path *)

\* The request carries a bearer token that verifies and names a subject.
ValidSubject(request) ==
    /\ request.authorization # None
    /\ request.authorization[1].scheme = "Bearer"
    /\ request.authorization[1].valid
    /\ request.authorization[1].sub # None

\* C6: a request that carries a valid authenticated subject is checked against the
\* subject's own bucket, user:<subject>, at the authenticated tier (rate 2.0,
\* capacity 30), not against an address-keyed bucket at the anonymous tier.
C6_AuthenticatedTier ==
    (resp.checked /\ ValidSubject(req)) =>
        resp.tier = [identifier |-> "user:" \o req.authorization[1].sub[1],
                     rate |-> <<2, 1>>, capacity |-> 30]

\* The addresses e such that the header value h reads: spaces, e, spaces, and then
\* either nothing or a comma and the other entries.
FirstAddresses(h) ==
    { SubSeq(h, i, j) : <<i, j>> \in
        { ij \in (1..Len(h)) \X (1..Len(h)) :
            /\ ij[1] <= ij[2]
            /\ \A k \in 1..(ij[1] - 1) : h[k] = " "
            /\ \A k \in ij[1]..ij[2] : h[k] \notin {" ", ","}
            /\ \E m \in ij[2]..Len(h) :
                  /\ \A k \in (ij[2] + 1)..m : h[k] = " "
                  /\ m = Len(h) \/ h[m + 1] = "," } }

\* C7: a request with no authenticated subject is checked at the anonymous tier
\* (rate 0.5, capacity 10), against the bucket keyed by the first address of the
\* forwarded-for header when the header is there, and by the transport peer's
\* address when it is not.
C7_AnonymousTier ==
    (resp.checked /\ ~ValidSubject(req)) =>
        /\ resp.tier.rate = <<1, 2>> /\ resp.tier.capacity = 10
        /\ req.forwarded # None =>
              \A e \in FirstAddresses(req.forwarded[1]) :
                  resp.tier.identifier = "ip:" \o Join(e)
        /\ (req.forwarded = None /\ req.client # None) =>
              resp.tier.identifier = "ip:" \o req.client[1]

\* A check was made for a request without a subject whose forwarded-for header
\* holds an address with whitespace or further entries around it, from another peer.
C7_Witness ==
    /\ resp.checked /\ ~ValidSubject(req) /\ resp.failure = "none"
    /\ req.forwarded # None /\ req.client # None
    /\ Len(req.forwarded[1]) > 1
    /\ FirstAddresses(req.forwarded[1]) = {<<"a">>}
    /\ resp.tier.identifier = "ip:a"

\* C8: the admission check fails open: when the store is unreachable, the script
\* is not loaded or the script call raises, the request is allowed and reaches the
\* downstream handler; a store failure never produces a denial or an error.
C8_FailOpen ==
    /\ (resp.status # 0 /\ resp.failure \in {"no_script", "no_client", "raised"}) =>
          (resp.status = 200 /\ resp.downstream)
    /\ resp.status = 429 => resp.failure = "none"

\* A request was let through although the script call raised, the store being down.
C8_Witness ==
    /\ resp.checked /\ resp.failure = "raised" /\ ~env.up
    /\ resp.status = 200 /\ resp.downstream

\* C9: a denied check is answered with a 'too many requests' rejection that
\* carries Retry-After: 60, and the downstream handler is not invoked.
C9_DeniedIsRejected ==
    (resp.checked /\ ~resp.allowed) =>
        /\ resp.status = 429
        /\ DOMAIN resp.headers = {"Retry-After"}
        /\ resp.headers["Retry-After"] = "60"
        /\ ~resp.downstream

\* A check has denied a request: the bucket holds less than one token.
C9_Witness ==
    /\ resp.checked /\ ~resp.allowed
    /\ BucketKey(resp.tier.identifier) \in DOMAIN store
    /\ store[BucketKey(resp.tier.identifier)].tokens < Unit

\* The headers that report a tier's configured limits
ConfiguredHeaders(tier) ==
    [h \in {"X-RateLimit-Limit", "X-RateLimit-Rate", "X-RateLimit-Burst"} |->
        IF tier.capacity = 30 /\ tier.rate = <<2, 1>>
        THEN (IF h = "X-RateLimit-Rate" THEN "2.0/s" ELSE "30")
        ELSE (IF h = "X-RateLimit-Rate" THEN "0.5/s" ELSE "10")]

---------------------------------------------------------------------------
(* Claims about the bucket's lifetime *)

\* C11: a bucket does not exist before the first check on its identifier; after a
\* check, allowed or denied, it exists with a time-to-live of 120 seconds counted
\* from that check, and so exists exactly as long as fewer than 120 seconds have
\* passed since the latest check.
C11_BucketLifetime ==
    /\ ~last.checked => ~Exists
    /\ last.checked => (Exists <=> clock - last.now < 120)
    /\ Exists => Bucket.expire_at = last.now + 120

\* the latest check was denied and the bucket outlived 120 seconds since its
\* creation because of it
C11_Witness ==
    /\ last.checked /\ last.result = 0
    /\ Exists
    /\ clock >= run.t0 + 120

---------------------------------------------------------------------------
(* Part 2: the version oracle and the cache (app/cache.py)                 *)
(*                                                                         *)
(* The store holds a version counter as the decimal string of an integer,  *)
(* under the key "version:<user_id>" and without a time-to-live.  Each     *)
(* server process has its own cache._redis_client.  A call is a sequence   *)
(* of steps, one per store command, so that the calls of several processes *)
(* interleave between their commands.                                      *)

\* The calls are all about one subject: a call touches no key but its subject's
Subjects == {"u1"}

\* key = f"version:{user_id}"
VersionKey(user_id) == "version:" \o user_id

\* The integers a version counter takes, and their decimal strings
Versions == 0..(MaxBumps + 1)
Str(n) == ToString(n)
IntOf(string) == CHOOSE n \in Versions : Str(n) = string

At(f, u) == IF u \in DOMAIN f THEN f[u] ELSE 0
Max(a, b) == IF a < b THEN b ELSE a
Put(f, u, v) == [x \in DOMAIN f \cup {u} |-> IF x = u THEN v ELSE f[x]]

\* get_redis: the client it returns, and cache._redis_client after it
GetRedis(client) ==
    IF client # None THEN [client |-> client, global |-> client]
    ELSE IF ~env.host THEN [client |-> None, global |-> None]
    ELSE IF env.up THEN [client |-> Some("client"), global |-> Some("client")]
    ELSE [client |-> None, global |-> None]

\* r.get(key)
GET(st, key) == IF key \in DOMAIN st THEN Some(st[key].value) ELSE None

\* SET NX as it would be if it counted up a key that exists (a faulty variant)
SETNXCounts(st, key, value) ==
    IF key \in DOMAIN st
    THEN [st EXCEPT ![key].value = Str(IntOf(@) + 1)]
    ELSE Put(st, key, [value |-> value, expire_at |-> NoExpiry])

\* SET NX as it would be without NX (a faulty variant)
SETNXOverwrites(st, key, value) == Put(st, key, [value |-> value, expire_at |-> NoExpiry])

\* r.set(key, 1, nx=True): written only if the key does not exist
SETNX(st, key, value) ==
    IF key \in DOMAIN st THEN st ELSE Put(st, key, [value |-> value, expire_at |-> NoExpiry])

\* r.incr(key): a missing key counts as 0
INCR(st, key) ==
    IF key \in DOMAIN st
    THEN [st EXCEPT ![key].value = Str(IntOf(@) + 1)]
    ELSE Put(st, key, [value |-> Str(1), expire_at |-> NoExpiry])

\* A process that is not inside a call
Free(p) == calls[p].pc \in {"idle", "returned", "raised"}

\* the history after get_user_version returned version for user_id
Returned(h, user_id, version) ==
    [h EXCEPT !.returned = Put(@, user_id, Max(At(@, user_id), version))]

\* the history after a bump_user_version(user_id) returned from its INCR, where
\* before is the highest version that get_user_version had returned when the bump
\* began
Bumped(h, user_id, before) ==
    [h EXCEPT !.floor = Put(@, user_id, Max(At(@, user_id), before))]

\* get_user_version, lines 88-90: get_redis, and the default without a client
GetUserVersion(p, user_id) ==
    /\ Free(p)
    /\ LET g == GetRedis(cache_client[p])
           call == [op |-> "get", pc |-> "read", user_id |-> user_id, ret |-> 0,
                    floor |-> At(hist.floor, user_id), stored |-> FALSE,
                    init |-> FALSE]
       IN  /\ cache_client' = [cache_client EXCEPT ![p] = g.global]
           /\ IF g.client = None
              THEN /\ calls' = [calls EXCEPT ![p] = [call EXCEPT !.pc = "returned", !.ret = 1]]
                   /\ hist' = Returned(hist, user_id, 1)
              ELSE /\ calls' = [calls EXCEPT ![p] = call]
                   /\ UNCHANGED hist
    /\ UNCHANGED <<clock, store, bucketHist, mwVars, codec, engineVars>>

\* get_user_version, lines 92-95 and 100: version = r.get(key)
GetVersionRead(p) ==
    /\ calls[p].op = "get" /\ calls[p].pc = "read"
    /\ IF ~env.up
       THEN calls' = [calls EXCEPT ![p].pc = "raised"] /\ UNCHANGED hist
       ELSE LET version == GET(store, VersionKey(calls[p].user_id))
            IN  IF version = None
                THEN /\ calls' = [calls EXCEPT ![p].pc = "init", ![p].init = TRUE]
                     /\ UNCHANGED hist
                ELSE /\ calls' = [calls EXCEPT ![p].pc = "returned",
                                                ![p].ret = IntOf(version[1]),
                                                ![p].stored = TRUE]
                     /\ hist' = Returned(hist, calls[p].user_id, IntOf(version[1]))
    /\ UNCHANGED <<clock, store, cache_client, bucketHist, mwVars, codec, engineVars>>

\* get_user_version, lines 97-98: r.set(key, 1, nx=True); return 1
GetVersionInit(p) ==
    /\ calls[p].op = "get" /\ calls[p].pc = "init"
    /\ IF ~env.up
       THEN calls' = [calls EXCEPT ![p].pc = "raised"] /\ UNCHANGED <<hist, store>>
       ELSE /\ store' = SETNX(store, VersionKey(calls[p].user_id), Str(1))
            /\ calls' = [calls EXCEPT ![p].pc = "returned", ![p].ret = 1,
                                       ![p].stored = TRUE]
            /\ hist' = Returned(hist, calls[p].user_id, 1)
    /\ UNCHANGED <<clock, cache_client, bucketHist, mwVars, codec, engineVars>>

\* bump_user_version, lines 105-107: get_redis, and the return without a client
BumpUserVersion(p, user_id) ==
    /\ Free(p)
    /\ hist.bumps < MaxBumps
    /\ LET g == GetRedis(cache_client[p])
           before == At(hist.returned, user_id)
           call == [op |-> "bump", pc |-> "incr", user_id |-> user_id, ret |-> 0,
                    floor |-> before, stored |-> FALSE, init |-> FALSE]
           h == [hist EXCEPT !.bumps = @ + 1]
       IN  /\ cache_client' = [cache_client EXCEPT ![p] = g.global]
           /\ IF g.client = None
              THEN /\ calls' = [calls EXCEPT ![p] = [call EXCEPT !.pc = "returned"]]
                   /\ hist' = h
              ELSE /\ calls' = [calls EXCEPT ![p] = call]
                   /\ hist' = h
    /\ UNCHANGED <<clock, store, bucketHist, mwVars, codec, engineVars>>

\* bump_user_version, line 108: r.incr(key)
BumpIncr(p) ==
    /\ calls[p].op = "bump" /\ calls[p].pc = "incr"
    /\ IF ~env.up
       THEN calls' = [calls EXCEPT ![p].pc = "raised"] /\ UNCHANGED <<hist, store>>
       ELSE /\ store' = INCR(store, VersionKey(calls[p].user_id))
            /\ calls' = [calls EXCEPT ![p].pc = "returned", ![p].stored = TRUE]
            /\ hist' = Bumped(hist, calls[p].user_id, calls[p].floor)
    /\ UNCHANGED <<clock, cache_client, bucketHist, mwVars, codec, engineVars>>

\* The calls of the version oracle, made by several processes while the store comes
\* and goes.  The store keeps its keys while it is unreachable.
InitVer ==
    /\ clock = 0
    /\ store = << >>
    /\ args = [identifier |-> "", rate |-> ANON_RATE, capacity |-> ANON_CAPACITY]
    /\ last = NoCheck
    /\ run = NoRun
    /\ inflight = [n \in Stamps |-> 0]
    /\ win = <<0, 0>>
    /\ inWin = 0
    /\ reordered = FALSE
    /\ env \in [disabled : {FALSE}, host : BOOLEAN, up : BOOLEAN, scripts : {{}}]
    /\ env.host \/ ~env.up
    /\ redis_client = None
    /\ script_sha = None
    /\ started = FALSE
    /\ req = [authorization |-> None, forwarded |-> None, client |-> None]
    /\ resp = NoResponse
    /\ IdleOracle
    /\ IdleCache
    /\ IdleCodec
    /\ IdleEngine

NextVer ==
    \/ \E p \in Procs, user_id \in Subjects :
          GetUserVersion(p, user_id) /\ UNCHANGED cacheVars
    \/ \E p \in Procs : GetVersionRead(p) /\ UNCHANGED cacheVars
    \/ \E p \in Procs : GetVersionInit(p) /\ UNCHANGED cacheVars
    \/ \E p \in Procs, user_id \in Subjects :
          BumpUserVersion(p, user_id) /\ UNCHANGED cacheVars
    \/ \E p \in Procs : BumpIncr(p) /\ UNCHANGED cacheVars
    \/ StoreDown
    \/ StoreBack(FALSE)
SpecVer == InitVer /\ [][NextVer]_vars

---------------------------------------------------------------------------
(* The query cache: cache.get and cache.set of app/cache.py, and the       *)
(* read-through wrapper fetch_or_compute around them.  A cache entry is    *)
(* the serialized result of a query under a key that names the subject,    *)
(* its version and the query's fingerprint, with a time-to-live.           *)

\* SETEX as it would be if the store dropped the value at once (a faulty variant)
SETEXForgets(st, key, ex, value, srv) == st

\* r.setex(key, ex, value): the value is written with a time-to-live of ex
\* seconds, which runs from the store's own clock srv
SETEX(st, key, ex, value, srv) == Put(st, key, [value |-> value, expire_at |-> srv + ex])

\* cache.get(key): None without a client; r.get(key) outside any try
CacheGet(client, key) ==
    LET g == GetRedis(client)
    IN  IF g.client = None
        THEN [raised |-> FALSE, value |-> None, read |-> FALSE, global |-> g.global]
        ELSE IF ~env.up
        THEN [raised |-> TRUE, value |-> None, read |-> FALSE, global |-> g.global]
        ELSE [raised |-> FALSE, value |-> GET(store, key), read |-> TRUE,
              global |-> g.global]

\* cache.set(key, value, ex): nothing without a client; r.setex inside try/except
CacheSet(client, key, value, ex) ==
    LET g == GetRedis(client)
    IN  IF g.client = None \/ ~env.up
        THEN [raised |-> FALSE, store |-> store, wrote |-> FALSE, global |-> g.global]
        ELSE [raised |-> FALSE, store |-> SETEX(store, key, ex, value, clock),
              wrote |-> TRUE, global |-> g.global]

\* The wrapper's constants and conversions
CACHE_TTL == 300
Namespace == "health"
Params == {"q1", "q2"}
Fingerprint(params) == IF params = "q1" THEN "0a1b2c3d" ELSE "4e5f6071"
CacheKey(user_id, version, params) ==
    Namespace \o ":" \o user_id \o ":range:v" \o Str(version) \o ":" \o Fingerprint(params)
Serialize(result) == <<"bytes", result[1], Str(result[2])>>
Deserialize(bytes) == <<bytes[2], IntOf(bytes[3])>>

\* The underlying compute path: the query's result on the data as it is now
Compute(params) == <<params, data>>

\* The process that serves the queries
Reader == 1

\* A query is not under way
Quiet == fetch.pc \in {"idle", "done", "raised"} /\ \A p \in Procs : Free(p)

\* fetch_or_compute(subject, params, compute) begins: version = get_version(subject)
FetchOrCompute(user_id, params) ==
    /\ Quiet
    /\ GetUserVersion(Reader, user_id)
    /\ prev' = IF fetch.pc = "done" THEN fetch ELSE NoFetch
    /\ fetch' = [NoFetch EXCEPT !.pc = "version", !.user_id = user_id,
                                !.params = params]
    /\ UNCHANGED data

\* get_version goes on
FetchVersion ==
    /\ fetch.pc = "version"
    /\ GetVersionRead(Reader) \/ GetVersionInit(Reader)
    /\ UNCHANGED cacheVars

\* the cache is read under the key of the version that get_version returned
FetchGet ==
    /\ fetch.pc = "version"
    /\ calls[Reader].pc \in {"returned", "raised"}
    /\ IF calls[Reader].pc = "raised"
       THEN /\ fetch' = [fetch EXCEPT !.pc = "raised", !.where = "get_version"]
            /\ UNCHANGED cache_client
       ELSE LET version == calls[Reader].ret
                c == CacheGet(cache_client[Reader],
                              CacheKey(fetch.user_id, version, fetch.params))
            IN  /\ cache_client' = [cache_client EXCEPT ![Reader] = c.global]
                /\ fetch' =
                     IF c.raised
                     THEN [fetch EXCEPT !.pc = "raised", !.where = "cache.get",
                                        !.version = version]
                     ELSE IF c.value # None
                     THEN [fetch EXCEPT !.pc = "done", !.version = version,
                                        !.read = TRUE, !.at = clock,
                                        !.result = Some(Deserialize(c.value[1]))]
                     ELSE [fetch EXCEPT !.pc = "compute", !.version = version,
                                        !.read = c.read, !.at = clock]
    /\ UNCHANGED <<clock, store, calls, hist, prev, data, bucketHist, mwVars, codec, engineVars>>

\* a miss: result = compute()
FetchCompute ==
    /\ fetch.pc = "compute"
    /\ fetch' = [fetch EXCEPT !.pc = "set", !.computed = TRUE,
                              !.result = Some(Compute(fetch.params))]
    /\ UNCHANGED <<clock, store, oracleVars, prev, data, bucketHist, mwVars, codec, engineVars>>

\* the result is stored with a 300-second time-to-live and returned
FetchSet ==
    /\ fetch.pc = "set"
    /\ LET c == CacheSet(cache_client[Reader],
                         CacheKey(fetch.user_id, fetch.version, fetch.params),
                         Serialize(fetch.result[1]), CACHE_TTL)
       IN  /\ cache_client' = [cache_client EXCEPT ![Reader] = c.global]
           /\ store' = c.store
           /\ fetch' = IF c.raised
                       THEN [fetch EXCEPT !.pc = "raised", !.where = "cache.set"]
                       ELSE [fetch EXCEPT !.pc = "done", !.wrote = c.wrote,
                                          !.set_at = clock]
    /\ UNCHANGED <<clock, calls, hist, prev, data, bucketHist, mwVars, codec, engineVars>>

\* the write path: the data changes, and the writer bumps the subject's version.
\* Queries and writes are served by one process, one after the other.
Write(p, user_id) ==
    /\ Quiet
    /\ BumpUserVersion(p, user_id)
    /\ data' = data + 1
    /\ UNCHANGED <<fetch, prev>>

\* bump_user_version goes on
WriteBump(p) ==
    /\ BumpIncr(p)
    /\ fetch' = [fetch EXCEPT !.bumped = @ \/ env.up]
    /\ UNCHANGED <<prev, data>>

\* The cache's entries run out while nothing is asked: time passes, up to one
\* time-to-live of an entry
CacheIdle ==
    \E d \in {CACHE_TTL - 1, CACHE_TTL} : clock + d <= CACHE_TTL /\ Pass(d)

\* Queries and writes, one after the other, while the store comes and goes and
\* time passes.  The store keeps its keys while it is unreachable.
InitCache == InitVer
NextCache ==
    \/ \E user_id \in Subjects, params \in Params : FetchOrCompute(user_id, params)
    \/ FetchVersion
    \/ FetchGet
    \/ FetchCompute
    \/ FetchSet
    \/ \E user_id \in Subjects : Write(Reader, user_id)
    \/ WriteBump(Reader)
    \/ StoreDown
    \/ StoreBack(FALSE)
    \/ CacheIdle
SpecCache == InitCache /\ [][NextCache]_vars

---------------------------------------------------------------------------
(* Claims about the version oracle *)

Stored(user_id) == VersionKey(user_id) \in DOMAIN store
StoredVersion(user_id) == IntOf(store[VersionKey(user_id)].value)
Got(p) == calls[p].op = "get" /\ calls[p].pc = "returned"

\* C12: as long as no bump_user_version has been called, every get_user_version
\* returns 1, the counter of its subject holds 1 once a call that reached the store
\* has returned, and a counter that exists holds 1, however the first accesses of
\* several callers interleave.
C12_AtomicFirstAccess ==
    hist.bumps = 0 =>
        /\ \A p \in Procs : Got(p) =>
              /\ calls[p].ret = 1
              /\ calls[p].stored => Stored(calls[p].user_id)
        /\ \A u \in Subjects : Stored(u) => store[VersionKey(u)].value = "1"

\* two callers have both found no counter for the same subject, and both have
\* returned from initialising it
C12_Witness ==
    /\ hist.bumps = 0
    /\ \E p, q \in Procs :
         /\ p # q /\ Got(p) /\ Got(q) /\ calls[p].stored /\ calls[q].stored
         /\ calls[p].user_id = calls[q].user_id
         /\ calls[p].init /\ calls[q].init

\* C13: no step of any interleaving of get_user_version and bump_user_version calls
\* removes a subject's stored counter or lowers it.
C13_VersionNeverDecreases ==
    [][\A u \in Subjects :
          Stored(u) => /\ VersionKey(u) \in DOMAIN store'
                       /\ IntOf(store'[VersionKey(u)].value) >= StoredVersion(u)]_vars

\* a get_user_version found no counter, the one bump_user_version there was created
\* it meanwhile, and the get has returned from its SET NX leaving the counter alone
C13_Witness ==
    /\ hist.bumps = 1
    /\ \E p, q \in Procs :
         /\ Got(p) /\ calls[p].init /\ calls[p].stored
         /\ calls[q].op = "bump" /\ calls[q].pc = "returned" /\ calls[q].stored
         /\ calls[p].user_id = calls[q].user_id
         /\ StoredVersion(calls[p].user_id) = 1

\* C14: a get_user_version that began after a bump_user_version of its subject had
\* incremented the counter and returned, and that read the counter from the store,
\* returns a version greater than every version that get_user_version had returned
\* for the subject before that bump began.
C14_BumpInvalidates ==
    \A p \in Procs : Got(p) /\ calls[p].stored => calls[p].ret > calls[p].floor

\* C15: no get_user_version and no bump_user_version call ends with an exception.
C15_OracleNeverRaises ==
    \A p \in Procs : calls[p].pc # "raised"

---------------------------------------------------------------------------
(* Claims about the query cache *)

\* The query just served and the one served before it are the same query
SameQuery ==
    /\ fetch.pc = "done" /\ prev.pc = "done"
    /\ fetch.user_id = prev.user_id /\ fetch.params = prev.params

C17_BumpForcesRecompute ==
    (SameQuery /\ prev.bumped) => fetch.computed

\* C18: no query ends with an exception raised by cache.get or by cache.set.
C18_CacheNeverRaises ==
    ~(fetch.pc = "raised" /\ fetch.where \in {"cache.get", "cache.set"})

---------------------------------------------------------------------------
(* The cursor codec at work *)

\* A position is encoded and the cursor decoded, or a cursor from a client is decoded
InitCursor ==
    /\ clock = 0
    /\ store = << >>
    /\ args = [identifier |-> "", rate |-> ANON_RATE, capacity |-> ANON_CAPACITY]
    /\ last = NoCheck
    /\ run = NoRun
    /\ inflight = [n \in Stamps |-> 0]
    /\ win = <<0, 0>>
    /\ inWin = 0
    /\ reordered = FALSE
    /\ IdleMW
    /\ IdleOracle
    /\ IdleCache
    /\ IdleEngine
    /\ \/ \E timestamp \in Datetimes, doc_id \in DocIds :
            codec = [NoCodec EXCEPT !.stage = "position", !.timestamp = timestamp,
                                    !.doc_id = doc_id, !.encoded = TRUE]
       \/ \E cursor \in Cursors :
            codec = [NoCodec EXCEPT !.stage = "cursor", !.cursor = cursor]

Encode ==
    /\ codec.stage = "position"
    /\ codec' = [codec EXCEPT !.stage = "cursor",
                              !.cursor = EncodeCursor(codec.timestamp, codec.doc_id)]
    /\ UNCHANGED <<clock, store, bucketHist, mwVars, oracleVars, cacheVars, engineVars>>

Decode ==
    /\ codec.stage = "cursor"
    /\ codec' = [codec EXCEPT !.stage = "decoded", !.out = DecodeCursor(codec.cursor)]
    /\ UNCHANGED <<clock, store, bucketHist, mwVars, oracleVars, cacheVars, engineVars>>

NextCursor == Encode \/ Decode
SpecCursor == InitCursor /\ [][NextCursor]_vars

---------------------------------------------------------------------------
(* Claims about the cursor codec *)

\* The instant of a datetime in UTC; a datetime without tzinfo is read as UTC
InUtc(timestamp) ==
    IF timestamp.tzinfo = None THEN [wall |-> timestamp.wall, tzinfo |-> Some(0)]
    ELSE [wall |-> timestamp.wall - timestamp.tzinfo[1], tzinfo |-> Some(0)]

\* C19: decoding the cursor that encode_cursor made of (timestamp, id) returns the
\* timestamp as a UTC datetime of the same instant, and the id.
C19_RoundTrip ==
    (codec.stage = "decoded" /\ codec.encoded) =>
        /\ codec.out.exc = ""
        /\ codec.out.timestamp = InUtc(codec.timestamp)
        /\ codec.out.doc_id = JString(PlainString(codec.doc_id))

\* A cursor that is the transport encoding of a JSON object with a timestamp member
\* that is an ISO-8601 string and an id member that is a string
WellFormed(cursor) ==
    /\ cursor.b64 /\ cursor.utf8 /\ cursor.json
    /\ cursor.value.type = "object"
    /\ DOMAIN cursor.value.members = {"timestamp", "id"}
    /\ cursor.value.members["timestamp"].type = "string"
    /\ cursor.value.members["timestamp"].string.iso
    /\ cursor.value.members["id"].type = "string"

\* C20: decode_cursor of a cursor that is not well-formed ends with ValueError.
C20_InvalidCursorIsValueError ==
    (codec.stage = "decoded" /\ ~WellFormed(codec.cursor)) => codec.out.exc = "ValueError"

---------------------------------------------------------------------------
(* The query engine at work: documents are created, and a client asks for  *)
(* pages of a subject's documents.                                         *)

\* Everything but the engine, at rest
RestIdle ==
    /\ clock = 0
    /\ store = << >>
    /\ args = [identifier |-> "", rate |-> ANON_RATE, capacity |-> ANON_CAPACITY]
    /\ last = NoCheck
    /\ run = NoRun
    /\ inflight = [n \in Stamps |-> 0]
    /\ win = <<0, 0>>
    /\ inWin = 0
    /\ reordered = FALSE
    /\ IdleMW
    /\ IdleOracle
    /\ IdleCache
    /\ IdleCodec
restVars == <<clock, store, bucketHist, mwVars, oracleVars, cacheVars, codec>>

\* The timestamps of the documents: midnight, the last minute of the same day, and
\* the next midnight
Instants == {0, MinutesPerDay - 1, MinutesPerDay}

\* The date ranges asked for: none, the first day, the second day
Ranges == {<<None, None>>, <<Some(0), Some(0)>>,
           <<Some(MinutesPerDay), Some(MinutesPerDay)>>}

\* The limits asked for
Limits == {0, 1, 2, MAX_LIMIT + 1}

\* The readings of a document: the n-th document created carries these
Steps(n) == 1000 * n
Calories(n) == 100 * n + 50
SleepHours(n) == 60 + 5 * n

\* create_health_data(user_id, health_data): a document with a new random id
CreateHealthData(user_id, timestamp) ==
    /\ page.pc = "idle" /\ summary.pc = "idle" /\ http.pc = "idle"
    /\ \E n \in (1..MaxDocs) \ DOMAIN docs :
         docs' = [m \in DOMAIN docs \cup {n} |->
                    IF m = n
                    THEN EntryDoc(user_id, timestamp, Steps(n), Calories(n), SleepHours(n))
                    ELSE docs[m]]
    /\ UNCHANGED <<page, session, summary, http, restVars>>

\* The cursors a client may send that no page gave it: ones that do not decode,
\* ones that decode to no usable document id, and ones that name a document id
UnreadableCursors ==
    {Cursor(FALSE, FALSE, FALSE, JOther("null")),
     Cursor(TRUE, TRUE, TRUE, JOther("array")),
     Cursor(TRUE, TRUE, TRUE,
            JObject([k \in {"timestamp"} |-> JString(IsoFormat(Utc(0)))])),
     Cursor(TRUE, TRUE, TRUE,
            JObject([k \in {"timestamp", "id"} |-> JString(PlainString("doc-1"))]))}
UnusableCursors ==
    {Cursor(TRUE, TRUE, TRUE,
            JObject([k \in {"timestamp", "id"} |->
                        IF k = "timestamp" THEN JString(IsoFormat(Utc(0))) ELSE v]))
        : v \in {JOther("number"), JOther("null"), JString(PlainString("doc/2")),
                 JString(PlainString("doc-1"))}}
NamingCursors == {EncodeCursor(Utc(0), DocId(n)) : n \in 1..MaxDocs}
ClientCursors == UnreadableCursors \cup UnusableCursors \cup NamingCursors

\* get_health_data(user_id, start_date, end_date, cursor, limit) is called
Ended(user_id, start_date, end_date, cursor, limit, lookup_ok, stream_ok, out) ==
    [pc |-> IF out.exc = "" THEN "returned" ELSE "raised",
     user_id |-> user_id, start_date |-> start_date,
     end_date |-> end_date, cursor |-> cursor, limit |-> limit,
     lookup_ok |-> lookup_ok, stream_ok |-> stream_ok, out |-> out]
Call(user_id, start_date, end_date, cursor, limit, lookup_ok, stream_ok) ==
    page' = Ended(user_id, start_date, end_date, cursor, limit, lookup_ok, stream_ok,
                  GetHealthData(docs, user_id, start_date, end_date, cursor, limit,
                                lookup_ok, stream_ok))

\* the history of a session after its next page; before, inserted and gone are the
\* documents that were there when the session began, and those created and deleted
\* since
Turned(s, p, lookup_ok) ==
    [pc |-> IF p.pc = "raised" THEN "raised"
            ELSE IF p.out.has_more /\ p.out.next_cursor # None THEN "paging"
            ELSE "done",
     items |-> s.items \o p.out.entries,
     pages |-> s.pages + 1,
     failures |-> s.failures + (IF lookup_ok THEN 0 ELSE 1),
     before |-> s.before, inserted |-> s.inserted, gone |-> s.gone]

\* A client asks for the first page
FirstPage(user_id, range, limit) ==
    /\ page.pc = "idle" /\ summary.pc = "idle" /\ http.pc = "idle"
    /\ \E stream_ok \in BOOLEAN :
         Call(user_id, range[1], range[2], None, limit, TRUE, stream_ok)
    /\ session' = Turned([session EXCEPT !.before = DOMAIN docs], page', TRUE)
    /\ UNCHANGED <<docs, summary, http, restVars>>

\* The client asks for the next page with the next_cursor of the page it got
NextPage ==
    /\ session.pc = "paging"
    /\ \E lookup_ok, stream_ok \in BOOLEAN :
         /\ lookup_ok \/ session.failures < MaxFailures
         /\ Call(page.user_id, page.start_date, page.end_date, page.out.next_cursor,
                 page.limit, lookup_ok, stream_ok)
         /\ session' = Turned(session, page', lookup_ok)
    /\ UNCHANGED <<docs, summary, http, restVars>>

\* A client asks for a page with a cursor of its own making
CursorPage(user_id, range, cursor, limit) ==
    /\ page.pc = "idle" /\ summary.pc = "idle" /\ http.pc = "idle"
    /\ \E lookup_ok, stream_ok \in BOOLEAN :
         Call(user_id, range[1], range[2], Some(cursor), limit, lookup_ok, stream_ok)
    /\ UNCHANGED <<docs, session, summary, http, restVars>>

\* Between the pages of a session a client creates a document
CreateBetweenPages(user_id, timestamp) ==
    /\ session.pc = "paging"
    /\ \E n \in (1..MaxDocs) \ (DOMAIN docs \cup session.gone) :
         /\ docs' = [m \in DOMAIN docs \cup {n} |->
                      IF m = n
                      THEN EntryDoc(user_id, timestamp, Steps(n), Calories(n),
                                    SleepHours(n))
                      ELSE docs[m]]
         /\ session' = [session EXCEPT !.inserted = @ \cup {n}]
    /\ UNCHANGED <<page, summary, http, restVars>>

\* Between the pages of a session a document is deleted from the collection
DeleteBetweenPages(n) ==
    /\ session.pc = "paging"
    /\ n \in DOMAIN docs
    /\ docs' = [m \in DOMAIN docs \ {n} |-> docs[m]]
    /\ session' = [session EXCEPT !.gone = @ \cup {n}]
    /\ UNCHANGED <<page, summary, http, restVars>>

InitQuery == RestIdle /\ IdleEngine
NextQuery ==
    \/ \E user_id \in Users, timestamp \in Instants : CreateHealthData(user_id, timestamp)
    \/ \E user_id \in Subjects, range \in Ranges, limit \in Limits :
         FirstPage(user_id, range, limit)
    \/ NextPage
    \/ \E user_id \in Subjects, range \in Ranges, cursor \in ClientCursors,
          limit \in Limits : CursorPage(user_id, range, cursor, limit)
SpecQuery == InitQuery /\ [][NextQuery]_vars

\* Sessions of one or two entries to a page over a collection that changes between
\* the pages
ChurnLimits == {1, 2}
NextChurn ==
    \/ \E user_id \in Users, timestamp \in Instants : CreateHealthData(user_id, timestamp)
    \/ \E user_id \in Subjects, range \in Ranges, limit \in ChurnLimits :
         FirstPage(user_id, range, limit)
    \/ NextPage
    \/ \E user_id \in Users, timestamp \in Instants :
         CreateBetweenPages(user_id, timestamp)
    \/ \E n \in 1..MaxDocs : DeleteBetweenPages(n)
SpecChurn == InitQuery /\ [][NextChurn]_vars

---------------------------------------------------------------------------
(* Claims about the query engine *)

\* The latest call of the engine has ended, with a page or with an exception
Called == page.pc # "idle"

\* What the same query returns when it is asked with no cursor, the store answering
\* the query as it did
WithNoCursor ==
    GetHealthData(docs, page.user_id, page.start_date, page.end_date, None, page.limit,
                  TRUE, page.stream_ok)

\* C21: a query given a cursor that fails to decode does not fail because of it, and
\* returns exactly what the same query with no cursor returns.
C21_UndecodableCursorIsNoCursor ==
    (Called /\ page.cursor # None /\ DecodeCursor(page.cursor[1]).exc # "") =>
        /\ page.out.exc = WithNoCursor.exc
        /\ page.out.entries = WithNoCursor.entries
        /\ page.out.next_cursor = WithNoCursor.next_cursor
        /\ page.out.has_more = WithNoCursor.has_more

\* a cursor that is the encoding of a JSON array, whose decoding ends with TypeError,
\* was sent, and a first page with more to come was returned
C21_Witness ==
    /\ page.pc = "returned" /\ page.cursor # None
    /\ DecodeBody(page.cursor[1]).exc = "TypeError"
    /\ page.out.entries # << >> /\ page.out.has_more

\* The documents of the subject asked for that lie in the range asked for: from
\* start_date on, and up to the end of end_date's day
Matching ==
    {n \in DOMAIN docs :
        /\ docs[n].user_id = page.user_id
        /\ page.start_date # None => docs[n].timestamp >= page.start_date[1]
        /\ page.end_date # None =>
             docs[n].timestamp \div MinutesPerDay <= page.end_date[1] \div MinutesPerDay}

\* Document n comes after document m in the order (timestamp, id)
Follows(n, m) ==
    \/ docs[n].timestamp > docs[m].timestamp
    \/ docs[n].timestamp = docs[m].timestamp /\ n > m

\* The number of the document with this id
NumberOf(id) == CHOOSE n \in DOMAIN docs : DocId(n) = id

\* The entries are documents of the collection, each as it is stored, in strictly
\* ascending order of (timestamp, id)
Ascending(entries) ==
    /\ \A i \in 1..Len(entries) :
         /\ \E n \in DOMAIN docs : DocId(n) = entries[i].id
         /\ entries[i] = Entry(docs, NumberOf(entries[i].id))
    /\ \A i \in 1..(Len(entries) - 1) :
         Follows(NumberOf(entries[i + 1].id), NumberOf(entries[i].id))

\* C22: the pages of a session, from the first page with no cursor to the page with
\* has_more false, hold together exactly the matching documents, each once, in
\* strictly ascending order of (timestamp, id).
C22_PagesCoverSnapshot ==
    session.pc = "done" =>
        /\ Ascending(session.items)
        /\ {session.items[i].id : i \in 1..Len(session.items)}
              = {DocId(n) : n \in Matching}
        /\ Len(session.items) = Cardinality(Matching)

\* the same for the sessions in which the store answered every lookup of a cursor's
\* document
PagesCoverSnapshotIfAnswered == session.failures = 0 => C22_PagesCoverSnapshot

\* The limit a call works with
Effective(limit) == IF limit \in 1..MAX_LIMIT THEN limit ELSE DEFAULT_LIMIT

\* The matching documents after the position the call resumed at
Remaining ==
    {n \in Matching : page.out.after = None \/ Follows(n, page.out.after[1])}

\* C23: has_more is true exactly when more than limit matching documents remain
\* after the resume position; next_cursor is there exactly when has_more is true,
\* and decodes to the timestamp and the id of the last entry of the page.
C23_HasMoreAndNextCursor ==
    page.pc = "returned" =>
        LET entries == page.out.entries
            final == entries[Len(entries)]
        IN  /\ page.out.has_more <=> Cardinality(Remaining) > Effective(page.limit)
            /\ page.out.next_cursor # None <=> page.out.has_more
            /\ page.out.has_more =>
                 /\ entries # << >>
                 /\ DecodeCursor(page.out.next_cursor[1])
                      = Return(final.timestamp, JString(PlainString(final.id)))

\* a page resumed after a document held exactly limit documents, all that remained
C23_Witness ==
    /\ page.pc = "returned" /\ page.out.after # None
    /\ page.limit \in 1..MAX_LIMIT
    /\ Len(page.out.entries) = page.limit
    /\ Cardinality(Remaining) = page.limit
    /\ ~page.out.has_more /\ page.out.next_cursor = None

\* The document a well-formed cursor references, if it exists
Referenced(cursor) ==
    {n \in DOMAIN docs : DocId(n) = cursor.value.members["id"].string.text}

\* C24: with a well-formed cursor that references a document that exists, the page
\* holds only documents strictly after it in the order (timestamp, id); with one
\* that references a document that does not exist, the call returns what the same
\* query with no cursor returns.
C24_ResumeAfterReferenced ==
    (Called /\ page.cursor # None /\ WellFormed(page.cursor[1])) =>
        IF Referenced(page.cursor[1]) # {}
        THEN \A i \in 1..Len(page.out.entries) :
                \A m \in Referenced(page.cursor[1]) :
                    Follows(NumberOf(page.out.entries[i].id), m)
        ELSE /\ page.out.exc = WithNoCursor.exc
             /\ page.out.entries = WithNoCursor.entries
             /\ page.out.next_cursor = WithNoCursor.next_cursor
             /\ page.out.has_more = WithNoCursor.has_more

\* the same for the calls in which the store answered the lookup
ResumeAfterReferencedIfAnswered == page.lookup_ok => C24_ResumeAfterReferenced

\* C26: every entry of a page, and of a session's pages, is a document of the
\* subject asked for with start_date <= timestamp <= the end of end_date's day.
C26_OnlySubjectInRange ==
    \A e \in {page.out.entries[i] : i \in 1..Len(page.out.entries)}
               \cup {session.items[i] : i \in 1..Len(session.items)} :
        /\ e.user_id = page.user_id
        /\ e.timestamp.tzinfo = Some(0)
        /\ page.start_date # None => e.timestamp.wall >= page.start_date[1]
        /\ page.end_date # None =>
             e.timestamp.wall \div MinutesPerDay <= page.end_date[1] \div MinutesPerDay

\* a page for a day holds a document of the day's last minute, while the collection
\* holds a document of another subject on that day and one of the same subject on
\* the next day
C26_Witness ==
    /\ page.pc = "returned" /\ page.start_date = Some(0) /\ page.end_date = Some(0)
    /\ \E i \in 1..Len(page.out.entries) :
         page.out.entries[i].timestamp.wall = MinutesPerDay - 1
    /\ \E n, m \in DOMAIN docs :
         /\ docs[n].user_id # page.user_id /\ docs[n].timestamp = 0
         /\ docs[m].user_id = page.user_id /\ docs[m].timestamp = MinutesPerDay

\* C29: a call in which the store failed, at the lookup of the cursor's document or
\* at the query, ends with the failure, not with a page.
C29_StoreFailurePropagates ==
    (Called /\ (~page.stream_ok \/ page.out.lookup = "failed")) => page.pc = "raised"

---------------------------------------------------------------------------
(* The query engine on large collections: as many documents as a limit,    *)
(* and up to MaxExtra more.                                                *)

\* The sizes of the large collections
BulkSizes == {l + k : l \in {DEFAULT_LIMIT, MAX_LIMIT}, k \in 0..MaxExtra}

\* The limits asked for on them
BulkLimits == {0, DEFAULT_LIMIT \div 2, DEFAULT_LIMIT, MAX_LIMIT, MAX_LIMIT + 1,
               SUMMARY_LIMIT}

\* The date ranges asked for on them: none, the first day
BulkRanges == {<<None, None>>, <<Some(0), Some(0)>>}

\* The date ranges a summary is asked for: the first day, the second day, both
Days == {<<0, 0>>, <<MinutesPerDay, MinutesPerDay>>, <<0, MinutesPerDay>>}

\* get_health_data_summary(user_id, start_date, end_date) is called
Summed(user_id, start_date, end_date, out) ==
    [pc |-> IF out.exc = "" THEN "returned" ELSE "raised",
     user_id |-> user_id, start_date |-> start_date, end_date |-> end_date, out |-> out]
Summarize(user_id, start_date, end_date) ==
    /\ page.pc = "idle" /\ summary.pc = "idle" /\ http.pc = "idle"
    /\ \E stream_ok \in BOOLEAN :
         summary' = Summed(user_id, start_date, end_date,
                           GetHealthDataSummary(docs, user_id, start_date, end_date,
                                                stream_ok))
    /\ UNCHANGED <<docs, page, session, http, restVars>>

\* A collection of one subject's documents, two to a minute
InitBulk ==
    /\ RestIdle
    /\ page = NoPage /\ session = NoSession /\ summary = NoSummary /\ http = NoHttp
    /\ \E size \in BulkSizes :
         docs = [n \in 1..size |->
                    EntryDoc("u1", n \div 2, Steps(n), Calories(n), SleepHours(n))]
NextBulk ==
    \/ \E user_id \in Subjects, range \in BulkRanges, limit \in BulkLimits :
         FirstPage(user_id, range, limit)
    \/ NextPage
    \/ \E user_id \in Subjects, day \in Days : Summarize(user_id, day[1], day[2])
SpecBulk == InitBulk /\ [][NextBulk]_vars

---------------------------------------------------------------------------
(* Claims about the limit and the summary *)

\* C25: a page holds at most limit entries when 1 <= limit <= 100, and at most 50
\* when the limit is outside that range.
C25_LimitClamped ==
    page.pc = "returned" =>
        Len(page.out.entries) <=
            (IF 1 <= page.limit /\ page.limit <= 100 THEN page.limit ELSE 50)

\* a call with a limit above 100 returned 50 entries of more than 100 documents
C25_Witness ==
    /\ page.pc = "returned" /\ page.limit > 100
    /\ Len(page.out.entries) = 50 /\ page.out.has_more
    /\ Cardinality(DOMAIN docs) > 100

\* The documents a summary is asked about
Summarized ==
    {n \in DOMAIN docs :
        /\ docs[n].user_id = summary.user_id
        /\ docs[n].timestamp >= summary.start_date
        /\ docs[n].timestamp \div MinutesPerDay <= summary.end_date \div MinutesPerDay}

\* The sum of a reading over the documents of S numbered lo to hi, and over S
RECURSIVE TotalOver(_, _, _, _)
TotalOver(S, field, lo, hi) ==
    IF lo > hi THEN 0
    ELSE IF lo = hi THEN (IF lo \in S THEN docs[lo][field] ELSE 0)
    ELSE LET mid == (lo + hi) \div 2
         IN  TotalOver(S, field, lo, mid) + TotalOver(S, field, mid + 1, hi)
Total(S, field) == TotalOver(S, field, 1, Cardinality(DOMAIN docs))

\* Two fractions are the same number
SameNumber(a, b) == a[1] * b[2] = b[1] * a[2]

\* C27: a summary's total_steps is the sum of steps, and its averages are the means
\* of calories and of sleep hours, over all documents of the subject in the range.
C27_SummaryOverFullRange ==
    summary.pc = "returned" =>
        /\ summary.out.total_steps = Total(Summarized, "steps")
        /\ SameNumber(summary.out.average_calories,
                      <<Total(Summarized, "calories"), Cardinality(Summarized)>>)
        /\ SameNumber(summary.out.averageSleepHours,
                      <<Total(Summarized, "sleepHours"), Cardinality(Summarized)>>)

\* the same for the ranges that hold at most 50 documents
SummaryOverFullRangeUpToDefault ==
    Cardinality(Summarized) <= DEFAULT_LIMIT => C27_SummaryOverFullRange

---------------------------------------------------------------------------
(* The health-data routes (app/routers/health.py) and the dependencies     *)
(* that guard them (app/dependencies.py).                                  *)

\* What a request carries for authentication: no Authorization header, a header of
\* another scheme, or a bearer token; a token is valid (signed with the key and not
\* expired) or not, and its payload has a sub or has none
NoCredentials == [scheme |-> "", valid |-> FALSE, sub |-> None]
Bearer(valid, sub) == [scheme |-> "Bearer", valid |-> valid, sub |-> sub]
Credentials ==
    {NoCredentials, [scheme |-> "Basic", valid |-> FALSE, sub |-> None],
     Bearer(FALSE, Some("u1")), Bearer(TRUE, None)}
        \cup {Bearer(TRUE, Some(u)) : u \in Users}

\* The outcome of a dependency or of a route: a value, or an HTTPException
Ok(value) == [status_code |-> 0, value |-> value]
HTTPException(status_code) == [status_code |-> status_code, value |-> ""]

\* security = HTTPBearer(): rejects a request without bearer credentials
HTTPBearer(credentials) ==
    IF credentials.scheme # "Bearer" THEN HTTPException(401) ELSE Ok("")

\* verify_token: jwt.decode, and 401 on JWTError
VerifyToken(credentials) ==
    IF ~credentials.valid THEN HTTPException(401) ELSE Ok("")

\* get_current_user: the token's sub, or 401
GetCurrentUser(credentials) ==
    IF HTTPBearer(credentials).status_code # 0 THEN HTTPBearer(credentials)
    ELSE IF VerifyToken(credentials).status_code # 0 THEN VerifyToken(credentials)
    ELSE IF credentials.sub = None THEN HTTPException(401)
    ELSE Ok(credentials.sub[1])

\* verify_user_access without the comparison (a faulty variant)
VerifyUserAccessAnyUser(user_id, credentials) ==
    LET current_user == GetCurrentUser(credentials)
    IN  IF current_user.status_code # 0 THEN current_user ELSE Ok(user_id)

\* verify_user_access: 403 unless the authenticated user is the path's user
VerifyUserAccess(user_id, credentials) ==
    LET current_user == GetCurrentUser(credentials)
    IN  IF current_user.status_code # 0 THEN current_user
        ELSE IF current_user.value # user_id THEN HTTPException(403)
        ELSE Ok(user_id)

\* The date strings of a request, and parse_dd_mm_yyyy_date of them: midnight UTC of
\* the day, or InvalidDateError (None)
DateStrings == {"01-01-2026", "02-01-2026", "2026-01-01"}
ParseDdMmYyyyDate(date_str) ==
    CASE date_str = "01-01-2026" -> Some(0)
      [] date_str = "02-01-2026" -> Some(MinutesPerDay)
      [] OTHER -> None

\* The limits of a request: Query(50, ge=1, le=100) rejects the others
QueryLimits == {0, 1, DEFAULT_LIMIT}

\* The response to a request
Response(op, credentials, user_id, status_code, called, store_ok) ==
    [pc |-> "done", op |-> op, credentials |-> credentials, user_id |-> user_id,
     status_code |-> status_code, called |-> called, store_ok |-> store_ok]

\* The requests looked at: those that created the collection's documents, and one
\* request after them
Ready == http.pc = "idle" \/ http.status_code = 201

\* POST /users/{user_id}/health-data
CreateRoute(user_id, credentials, timestamp) ==
    /\ Ready
    /\ page' = NoPage /\ session' = NoSession /\ summary' = NoSummary
    /\ LET access == VerifyUserAccess(user_id, credentials)
       IN  IF access.status_code # 0
           THEN /\ http' = Response("create", credentials, user_id, access.status_code,
                                    FALSE, TRUE)
                /\ UNCHANGED docs
           ELSE \E store_ok \in BOOLEAN :
                  /\ Cardinality(DOMAIN docs) < MaxDocs
                  /\ IF store_ok
                     THEN \E n \in (1..MaxDocs) \ DOMAIN docs :
                            docs' = [m \in DOMAIN docs \cup {n} |->
                                       IF m = n
                                       THEN EntryDoc(user_id, timestamp, Steps(n),
                                                     Calories(n), SleepHours(n))
                                       ELSE docs[m]]
                     ELSE UNCHANGED docs
                  /\ http' = Response("create", credentials, user_id,
                                      IF store_ok THEN 201 ELSE 500, TRUE, store_ok)
    /\ UNCHANGED restVars

\* GET /users/{user_id}/health-data
ListRoute(user_id, credentials, start, end, limit) ==
    /\ Ready
    /\ session' = NoSession /\ summary' = NoSummary
    /\ LET access == VerifyUserAccess(user_id, credentials)
           start_dt == ParseDdMmYyyyDate(start)
           end_dt == ParseDdMmYyyyDate(end)
           rejected ==
               IF access.status_code # 0 THEN access.status_code
               ELSE IF limit < 1 \/ limit > MAX_LIMIT THEN 422
               ELSE IF start_dt = None \/ end_dt = None THEN 400
               ELSE IF start_dt[1] > end_dt[1] THEN 400
               ELSE 0
       IN  IF rejected # 0
           THEN /\ http' = Response("list", credentials, user_id, rejected, FALSE, TRUE)
                /\ page' = NoPage
           ELSE \E stream_ok \in BOOLEAN :
                  /\ Call(user_id, start_dt, end_dt, None, limit, TRUE, stream_ok)
                  /\ http' = Response("list", credentials, user_id,
                                      IF stream_ok THEN 200 ELSE 500, TRUE, stream_ok)
    /\ UNCHANGED <<docs, restVars>>

\* GET /users/{user_id}/health-data/summary
SummaryRoute(user_id, credentials, start_date, end_date) ==
    /\ Ready
    /\ page' = NoPage /\ session' = NoSession
    /\ LET access == VerifyUserAccess(user_id, credentials)
           start_date_utc == ParseDdMmYyyyDate(start_date)
           end_date_utc == ParseDdMmYyyyDate(end_date)
           rejected ==
               IF access.status_code # 0 THEN access.status_code
               ELSE IF start_date_utc = None \/ end_date_utc = None THEN 400
               ELSE IF start_date_utc[1] > end_date_utc[1] THEN 400
               ELSE 0
       IN  IF rejected # 0
           THEN /\ http' = Response("summary", credentials, user_id, rejected, FALSE, TRUE)
                /\ summary' = NoSummary
           ELSE \E stream_ok \in BOOLEAN :
                  /\ summary' = Summed(user_id, start_date_utc[1], end_date_utc[1],
                                        GetHealthDataSummary(docs, user_id,
                                                             start_date_utc[1],
                                                             end_date_utc[1], stream_ok))
                  /\ http' = Response("summary", credentials, user_id,
                                      IF summary'.out.exc = "" THEN 200
                                      ELSE IF summary'.out.exc = "HealthDataNotFoundError"
                                      THEN 404 ELSE 500,
                                      TRUE, stream_ok)
    /\ UNCHANGED <<docs, restVars>>

InitApi == InitQuery
NextApi ==
    \/ \E user_id \in Users, credentials \in Credentials, timestamp \in Instants :
         CreateRoute(user_id, credentials, timestamp)
    \/ \E user_id \in Users, credentials \in Credentials, start, end \in DateStrings,
          limit \in QueryLimits : ListRoute(user_id, credentials, start, end, limit)
    \/ \E user_id \in Users, credentials \in Credentials,
          start_date, end_date \in DateStrings :
         SummaryRoute(user_id, credentials, start_date, end_date)
SpecApi == InitApi /\ [][NextApi]_vars

---------------------------------------------------------------------------
(* Claims about the routes *)

\* C28: a summary asked over a range that holds no document of the subject is
\* answered with 404, from HealthDataNotFoundError, and a summary answered with 200
\* is over a range that holds one.
C28_EmptySummaryIsNotFound ==
    (http.pc = "done" /\ http.op = "summary" /\ http.called) =>
        /\ (Summarized = {} /\ http.store_ok) =>
              /\ summary.out.exc = "HealthDataNotFoundError"
              /\ http.status_code = 404
        /\ http.status_code = 200 =>
              /\ Summarized # {}
              /\ summary.out.total_steps > 0

\* a summary of a day that holds no document of the subject was answered with 404,
\* while the collection holds a document of the subject on another day and one of
\* another subject on that day
C28_Witness ==
    /\ http.pc = "done" /\ http.op = "summary" /\ http.status_code = 404
    /\ summary.start_date = MinutesPerDay
    /\ \E n, m \in DOMAIN docs :
         /\ docs[n].user_id = summary.user_id /\ docs[n].timestamp < MinutesPerDay
         /\ docs[m].user_id # summary.user_id /\ docs[m].timestamp = MinutesPerDay

\* The subject a request is authenticated as, if any
Authenticated(credentials) ==
    IF credentials.scheme = "Bearer" /\ credentials.valid THEN credentials.sub ELSE None

\* C30: a request whose authenticated subject is not the path's user is answered
\* with 403, an unauthenticated request with 401, and for neither is the service
\* called or the collection changed.
C30_OnlyOwnData ==
    [][http'.pc = "done" =>
         LET subject == Authenticated(http'.credentials)
         IN  /\ subject = None => http'.status_code = 401
             /\ (subject # None /\ subject # Some(http'.user_id)) =>
                   http'.status_code = 403
             /\ subject # Some(http'.user_id) =>
                   /\ ~http'.called
                   /\ docs' = docs /\ page' = NoPage /\ summary' = NoSummary]_vars

\* a request to create a document for another user than the authenticated one was
\* answered with 403
C30_Witness ==
    /\ http.pc = "done" /\ http.op = "create" /\ http.status_code = 403
    /\ Authenticated(http.credentials) # None
    /\ ~http.called


---------------------------------------------------------------------------
(* Claims about one check of the token bucket *)

\* What the latest check found: the token count and the seconds elapsed, a missing
\* bucket counting as a full one with nothing elapsed; and the count refilled
TokensPrev == IF last.read.nil THEN Cap ELSE last.read.tokens
ElapsedSeconds == IF last.read.nil THEN 0 ELSE last.now - last.read.last_refill
Refilled == Min(Cap, TokensPrev + RateTimes(ElapsedSeconds))

\* C31: one check computes refilled = min(capacity, tokens_prev + elapsed * rate), a
\* missing bucket counting as tokens_prev = capacity and elapsed = 0; it is allowed
\* if and only if refilled >= 1; it persists tokens = refilled - 1 when it allows
\* and tokens = refilled when it denies, and last_refill = now in both cases.
C31_OneCheck ==
    (last.checked /\ clock = last.now) =>
        /\ last.seen = Refilled
        /\ last.result = 1 <=> Refilled >= Unit
        /\ last.result = 0 <=> Refilled < Unit
        /\ Exists
        /\ Bucket.tokens = (IF last.result = 1 THEN Refilled - Unit ELSE Refilled)
        /\ Bucket.last_refill = last.now

\* a check was denied on a bucket that had refilled since the check before it, by
\* less than a token, and persisted the refilled count
C31_Witness ==
    /\ last.checked /\ clock = last.now /\ last.result = 0
    /\ ~last.read.nil /\ ElapsedSeconds > 0
    /\ 0 < Refilled /\ Refilled < Unit /\ Refilled > TokensPrev
    /\ Bucket.tokens = Refilled /\ Bucket.last_refill = last.now


---------------------------------------------------------------------------
(* Claims about the write path *)

\* What get_user_version(user_id) returns from the store st: the counter's value,
\* or 1 where there is no counter (and where there is no client)
VersionNow(st, user_id) ==
    IF GET(st, VersionKey(user_id)) = None THEN 1
    ELSE IntOf(GET(st, VersionKey(user_id))[1])

\* C32: when create_health_data(user_id, ...) has completed, get_version(user_id)
\* is strictly greater than it was before the write.
C32_CreateBumpsVersion ==
    [][\A n \in DOMAIN docs' \ DOMAIN docs :
          VersionNow(store', docs'[n].user_id) > VersionNow(store, docs'[n].user_id)]_vars


---------------------------------------------------------------------------
(* Claims about denied checks *)

\* C33: after a run of denied checks the stored token count is the one that a
\* single check at the time of the last of them would have stored on the bucket
\* that the first of them found, and last_refill is that time; and every denied
\* check comes less than 1/rate seconds after the latest check that emptied the
\* bucket, so that a check made 1/rate seconds or more after it is allowed.
C33_DeniedChecksCostNothing ==
    (last.checked /\ clock = last.now /\ last.result = 0) =>
        /\ ~run.base.nil
        /\ Bucket.tokens =
              Min(Cap, run.base.tokens + RateTimes(last.now - run.base.last_refill))
        /\ Bucket.last_refill = last.now
        /\ run.emptied # None
        /\ (last.now - run.emptied[1]) * args.rate[1] < args.rate[2]

\* denied checks were made at the time the bucket was emptied and one second later,
\* and the count stored is the half token refilled in that second
C33_Witness ==
    /\ last.checked /\ clock = last.now /\ last.result = 0
    /\ run.denials = 2 /\ run.emptied # None
    /\ run.base.last_refill = run.emptied[1] /\ last.now = run.emptied[1] + 1
    /\ last.read.last_refill = last.now
    /\ Bucket.tokens > run.base.tokens


---------------------------------------------------------------------------
(* Claims about the bucket's expiry *)

\* The token count that the latest check would have seen had the bucket that the
\* check before it left not expired
ContinuousRefill ==
    Min(Cap, last.before.tokens + RateTimes(last.now - last.before.last_refill))

\* C35: a check that finds no bucket where a check before it had left one, the
\* bucket having expired, sees the full capacity, and that is exactly the token
\* count that continuous refill would have produced had the bucket not expired.
C35_ExpiryGrantsNothing ==
    (last.checked /\ last.read.nil /\ ~last.before.nil) =>
        /\ last.now - last.before.last_refill >= BUCKET_TTL
        /\ last.seen = Cap
        /\ last.seen = ContinuousRefill

\* a bucket that a check had emptied expired 120 seconds later, and the next check
\* found none
C35_Witness ==
    /\ last.checked /\ last.read.nil /\ ~last.before.nil
    /\ last.before.tokens < Unit
    /\ last.now - last.before.last_refill = BUCKET_TTL
    /\ last.result = 1 /\ last.wrote.tokens = Cap - Unit


---------------------------------------------------------------------------
(* Claims about recovery from a store outage *)

\* The server process has started with the rate limit enabled and a store
\* configured, and the store is reachable
Reachable == started /\ ~env.disabled /\ env.host /\ env.up

\* The process holds the sha of a script that the store has
ScriptLoaded == script_sha # None /\ script_sha[1] \in env.scripts

\* C34: if from some time on the store stays reachable, then requests are denied
\* again and again: the requests of one client, which exhaust its bucket, do not
\* stay admitted for ever.
C34_FailOpenIsTransient == (<>[]Reachable) => ([]<>(resp.status = 429))

\* the same where the process holds the sha of a script that the store has
FailOpenIsTransientIfScriptLoaded ==
    (<>[](Reachable /\ ScriptLoaded)) => ([]<>(resp.status = 429))


---------------------------------------------------------------------------
(* Claims about the length of a pagination session *)

\* The least number of pages of limit entries that hold n entries, and at least one
PagesFor(n, limit) == IF n = 0 THEN 1 ELSE (n + limit - 1) \div limit

\* C36: over a collection that does not change, and with a limit in 1..100, a
\* session that begins with no cursor and follows next_cursor has asked for fewer
\* than max(1, ceil(N / limit)) pages while a page says there is more, and for
\* exactly that many when a page says there is no more, where N is the number of
\* matching documents.
C36_SessionLength ==
    (session.pc \in {"paging", "done"} /\ page.limit \in 1..MAX_LIMIT) =>
        /\ session.pc = "paging" =>
             session.pages < PagesFor(Cardinality(Matching), page.limit)
        /\ session.pc = "done" =>
             session.pages = PagesFor(Cardinality(Matching), page.limit)

\* the same for the sessions in which the store answered every lookup of a cursor's
\* document
SessionLengthIfAnswered == session.failures = 0 => C36_SessionLength

\* a session over three matching documents, two to a page, ended with its second page
SessionLengthIfAnsweredWitness ==
    /\ session.pc = "done" /\ session.failures = 0
    /\ page.limit = 2 /\ Cardinality(Matching) = 3 /\ session.pages = 2


---------------------------------------------------------------------------
(* Claims about what a cursor can reach *)

\* The cursor of the call was given by no page of the session: the client made it
Forged == page.cursor # None /\ session.pc = "idle"

\* C37: whatever cursor a call is given, one that a page gave, one that does not
\* decode, one that names no document, or one that names a document of another
\* subject, each entry of its page is a stored document of the subject asked for
\* within the range asked for, and so is the document that next_cursor names.
C37_CursorLeaksNothing ==
    (page.pc = "returned" /\ page.cursor # None) =>
        /\ \A i \in 1..Len(page.out.entries) :
             \E n \in Matching : page.out.entries[i] = Entry(docs, n)
        /\ page.out.next_cursor # None =>
             \E n \in Matching :
                page.out.next_cursor[1] = EncodeCursor(Utc(docs[n].timestamp), DocId(n))

\* a call for one subject with a cursor that names a document of another subject,
\* which the store found, and after which that other subject has a document more;
\* the page holds a document
C37_Witness ==
    /\ page.pc = "returned" /\ Forged
    /\ page.out.lookup = "found"
    /\ docs[page.out.after[1]].user_id # page.user_id
    /\ \E n \in DOMAIN docs :
         /\ docs[n].user_id # page.user_id
         /\ Before(docs, page.out.after[1], n)
    /\ page.out.entries # << >>


---------------------------------------------------------------------------
(* Claims about sessions over a collection that changes *)

\* How many times the pages of the session returned document n
Times(n) == Cardinality({i \in 1..Len(session.items) : session.items[i].id = DocId(n)})

\* C38: in a session during which no document is deleted, whatever documents are
\* created between its pages, a document that was there before the first page is
\* never returned twice, and at the session's end each such document of the subject
\* in the range has been returned.
C38_InsertsDisturbNothing ==
    session.gone = {} =>
        \A n \in session.before :
            /\ Times(n) <= 1
            /\ (session.pc = "done" /\ n \in Matching) => Times(n) = 1

\* the same for the sessions in which the store answered every lookup of a cursor's
\* document
InsertsDisturbNothingIfAnswered == session.failures = 0 => C38_InsertsDisturbNothing

\* a session of two pages ended: a document was created between them that sorts
\* before the first page's last document and matches, and nothing was deleted
InsertsDisturbNothingIfAnsweredWitness ==
    /\ session.pc = "done" /\ session.failures = 0 /\ session.gone = {}
    /\ session.pages = 2
    /\ \E n \in session.inserted \cap Matching, m \in session.before \cap Matching :
         /\ Before(docs, n, m)
         /\ Times(n) = 0
         /\ Times(m) = 1

\* C39: the pages of a session never return a document twice, whatever documents
\* are deleted between the pages.
C39_NoRepeat ==
    \A i, j \in 1..Len(session.items) :
        i # j => session.items[i].id # session.items[j].id

\* the same for the sessions in which the store answered every lookup of a cursor's
\* document
NoRepeatIfAnswered == session.failures = 0 => C39_NoRepeat

\* the same for the sessions in which, besides, no document was deleted
NoRepeatIfNothingDeleted == (session.failures = 0 /\ session.gone = {}) => C39_NoRepeat

\* a session of three pages ended without a repeated document, although documents
\* were deleted between its pages
NoRepeatWitness ==
    /\ session.pc = "done" /\ session.pages = 3 /\ session.gone # {}
    /\ C39_NoRepeat

=============================================================================
